---- MODULE Spec2Model ----
(***************************************************************************)
(* WireScope: the real-time log stream engine.                             *)
(*                                                                         *)
(* The module models the useLogStream hook (src/src/hooks/useLogStream.ts):*)
(* the listen handler that enqueues frames, the 50 ms flush timer, the     *)
(* capacity-bounded store kept by appendLogs, clear() and the effect       *)
(* cleanup.  JavaScript runs handlers to completion on one thread, so each *)
(* handler is one atomic action.  React applies the queued setLogs         *)
(* updaters in the order they were queued; the store variable holds the    *)
(* result of applying them.                                                *)
(***************************************************************************)
EXTENDS Integers, Sequences, FiniteSets, TLC

(***************************************************************************)
(* Bounds of the model.  MAX_LOG_LINES is 6000 in src/src/constants.ts:3;  *)
(* the model runs the same code with a small capacity so that eviction,    *)
(* and a batch larger than the capacity, happen within a few events.       *)
(***************************************************************************)
MAX_LOG_LINES == 2

\* Number of events the transport emits in one behaviour.
MaxEvents == 5

\* LogLine.dir (src/src/types/wirescope.ts:16): the transport tags a frame
\* RX or TX, and a connection lifecycle notice SYS.
Dirs == {"RX", "TX", "SYS"}

VARIABLES
    logs,           \* useState<LogLine[]>: the store
    pending,        \* pendingRef.current
    flushTimerRef,  \* flushTimerRef.current: a timer handle, 0 for null
    timers,         \* the browser's armed timeouts: [id, sub]
    timerSeq,       \* number of window.setTimeout calls made (handles are 1, 2, ...)
    disposed,       \* the effect instances whose `disposed` is true
    listeners,      \* the effect instances whose listener the transport still calls
    cur,            \* the effect instance of the mounted hook
    emitted,        \* history: every frame the transport delivered, in order
    lastOp,         \* history: the handler that ran last
    lastBatch,      \* history: the batch the last handler gave to appendLogs
    base,           \* history: the store the appends counted in `appended` started from
    appended,       \* history: concatenation of the batches appended since `base`
    cleared,        \* history: ids of the frames clear() removed (store or pending)
    torn,           \* history: ids of the frames the effect cleanup discarded
    nAppends,       \* history: number of setLogs calls made by appendLogs
    nFires          \* history: number of flush timer firings

\* The variables of the useLogStream hook.
streamVars == <<logs, pending, flushTimerRef, timers, timerSeq, disposed, listeners,
                cur, emitted, lastOp, lastBatch, base, appended, cleared, torn,
                nAppends, nFires>>

\* The LogView component (src/src/components/LogView.tsx).  LogView reads the
\* store through logs.length and logs[index] only; the view model keeps the
\* number of rows and the number of frames evicted in front of row 0.
VARIABLES
    totalRows,            \* logs.length of the logs prop
    evictedRows,          \* history: frames evicted from the front since the last clear
    selectedIndex,        \* useState(0)
    scrollTop,            \* useState(0)
    viewportHeight,       \* useState(0)
    scrollRafRef,         \* scrollRafRef.current: a frame handle, 0 for null
    rafs,                 \* the browser's pending animation-frame callbacks (handles)
    pendingScrollTopRef,  \* pendingScrollTopRef.current
    effectDeps,           \* [logs.length, selectedIndex] of the last clamp-effect run
    observed,             \* the ResizeObserver watches the rendered table wrap
    viewMounted,          \* the component is mounted
    viewOp,               \* history: the LogView step that ran last ("scroll again": a
                          \* scroll event that found an animation frame requested)
    clampFrom,            \* history: <<selectedIndex, scrollTop>> before the clamp-effect run, if it ran last
    lastScroll,           \* history: scrollTop of the most recent scroll event
    nViewAppends          \* history: number of appends shown to the view

viewVars == <<totalRows, evictedRows, selectedIndex, scrollTop, viewportHeight,
              scrollRafRef, rafs, pendingScrollTopRef, effectDeps, observed,
              viewMounted, viewOp, clampFrom, lastScroll, nViewAppends>>

\* The frame formatter (src/src/lib/format.ts) applied to one input.
VARIABLES
    fmtRaw,               \* LogLine.raw: the bytes given to formatPayload
    fmtText,              \* LogLine.text: the text given to formatPayload
    fmtMode,              \* the mode formatPayload ran in, "none" before the call
    fmtOut,               \* the string formatPayload returned
    fmtPreview            \* the row's preview: makePreview of that string

fmtVars == <<fmtRaw, fmtText, fmtMode, fmtOut, fmtPreview>>

\* The filter and the renderer of the earlier single-file App
\* (src/unnamed/part_000), applied to one list of frames.
VARIABLES
    lgLogs,               \* logs: frames [id, connId, text]; raw is the text's bytes
    lgConn,               \* activeConnId
    lgFilter,             \* filter
    lgUseRegex,           \* useRegex
    lgView,               \* viewMode
    lgRules,              \* colorRules
    lgFiltered,           \* the list `filtered` holds
    lgRendered,           \* the ids of the frames renderLogs returned an element for
    lgBodies,             \* the HTML body renderLogs made of each of these frames
    lgThrew,              \* an exception left `filtered` or renderLogs
    lgDone                \* the App has rendered

legacyVars == <<lgLogs, lgConn, lgFilter, lgUseRegex, lgView, lgRules, lgFiltered,
                lgRendered, lgBodies, lgThrew, lgDone>>

\* The settings of the App (App.tsx:13-17) and the localStorage entry they
\* are kept in (lib/format.ts:35).
\*   stStorage   the entry: whether storage access throws, what kind of text
\*               the entry holds, and the record the text parses to
\*   stSettings  the App's settings state
\*   stRaised    an exception left loadSettings or saveSettings
\*   stOp        the last step of the App
VARIABLES stStorage, stSettings, stRaised, stOp

settingsVars == <<stStorage, stSettings, stRaised, stOp>>

\* The connection panel the App shows (SerialPanel.tsx, SocketPanel.tsx) with
\* its useConnectionStatus hook, and the transport behind it.
\*   pnKind       which panel is mounted: "serial" or "socket"
\*   pnConnected  the hook's `connected` state, the status the panel shows
\*   pnWorking    the panel's `working` state
\*   pnError      the panel's `error` state: <<>> for the empty text, or the
\*                panel and the handler the message names
\*   pnBackend    whether the transport holds the connection
\*   pnCalls      the handler calls that wait on an invoke: the handler, what
\*                it awaits, the hook's effect instance at the call and, for
\*                send, the message
\*   pnHook       the effect instance of the hook (a change of command or
\*                connId tears one down and sets up the next)
\*   pnPolls      the effect instances with a poll query in flight
\*   pnOp         the last step of the panel
\*   pnAnswer     the answer to the status query of that step ("none" when
\*                the step queried nothing)
VARIABLES pnKind, pnConnected, pnWorking, pnError, pnBackend, pnCalls, pnOp,
          pnAnswer, pnHook, pnPolls

panelVars == <<pnKind, pnConnected, pnWorking, pnError, pnBackend, pnCalls, pnOp,
               pnAnswer, pnHook, pnPolls>>

vars == <<streamVars, viewVars, fmtVars, legacyVars, settingsVars, panelVars>>

\* What the steps of one part leave alone: the variables of the other parts.
nonStreamVars == <<viewVars, fmtVars, legacyVars, settingsVars, panelVars>>
nonViewVars == <<streamVars, fmtVars, legacyVars, settingsVars, panelVars>>
nonFmtVars == <<streamVars, viewVars, legacyVars, settingsVars, panelVars>>
nonLegacyVars == <<streamVars, viewVars, fmtVars, settingsVars, panelVars>>
nonSettingsVars == <<streamVars, viewVars, fmtVars, legacyVars, panelVars>>
nonPanelVars == <<streamVars, viewVars, fmtVars, legacyVars, settingsVars>>

----------------------------------------------------------------------------
(* Each specification below drives one part of the program; the variables *)
(* of the other parts rest at these values.                                *)

StreamIdle ==
    /\ logs = <<>>
    /\ pending = <<>>
    /\ flushTimerRef = 0
    /\ timers = {}
    /\ timerSeq = 0
    /\ disposed = {}
    /\ listeners = {}
    /\ cur = 1
    /\ emitted = <<>>
    /\ lastOp = "init"
    /\ lastBatch = <<>>
    /\ base = <<>>
    /\ appended = <<>>
    /\ cleared = {}
    /\ torn = {}
    /\ nAppends = 0
    /\ nFires = 0

ViewIdle ==
    /\ totalRows = 0
    /\ evictedRows = 0
    /\ selectedIndex = 0
    /\ scrollTop = 0
    /\ viewportHeight = 0
    /\ scrollRafRef = 0
    /\ rafs = {}
    /\ pendingScrollTopRef = 0
    /\ effectDeps = <<0, 0>>
    /\ observed = FALSE
    /\ viewMounted = TRUE
    /\ viewOp = "init"
    /\ clampFrom = <<0, 0>>
    /\ lastScroll = 0
    /\ nViewAppends = 0

FmtIdle ==
    /\ fmtRaw = <<>>
    /\ fmtText = <<>>
    /\ fmtMode = "none"
    /\ fmtOut = <<>>
    /\ fmtPreview = <<>>

LegacyIdle ==
    /\ lgLogs = <<>>
    /\ lgConn = "main"
    /\ lgFilter = <<>>
    /\ lgUseRegex = FALSE
    /\ lgView = "ascii"
    /\ lgRules = <<>>
    /\ lgFiltered = <<>>
    /\ lgRendered = <<>>
    /\ lgBodies = <<>>
    /\ lgThrew = FALSE
    /\ lgDone = FALSE

SettingsIdle ==
    /\ stStorage = [denied |-> FALSE, kind |-> "absent", value |-> <<>>]
    /\ stSettings = <<>>
    /\ stRaised = FALSE
    /\ stOp = "none"

PanelIdle ==
    /\ pnKind = "serial"
    /\ pnConnected = FALSE
    /\ pnWorking = FALSE
    /\ pnError = <<>>
    /\ pnBackend = FALSE
    /\ pnCalls = <<>>
    /\ pnOp = "mount"
    /\ pnAnswer = "none"
    /\ pnHook = 1
    /\ pnPolls = {}

----------------------------------------------------------------------------
(* Helpers *)

Min(a, b) == IF a < b THEN a ELSE b

\* Array.prototype.slice(start) for 0 <= start: the elements from index start on.
SliceFrom(s, start) == SubSeq(s, start + 1, Len(s))

\* The last n elements of s.
LastN(s, n) == SubSeq(s, Len(s) - n + 1, Len(s))

Ids(s) == {s[k].id : k \in 1..Len(s)}

NonSys(s) == SelectSeq(s, LAMBDA f : f.dir # "SYS")

----------------------------------------------------------------------------
(* appendLogs: the updater handed to setLogs *)

\* Bug variant: the oversize-batch branch forgets to slice the batch.
appendLogs_KeepWholeBatch(previous, incoming) ==
    IF Len(incoming) = 0 THEN previous
    ELSE LET total == Len(previous) + Len(incoming) IN
         IF total <= MAX_LOG_LINES THEN previous \o incoming
         ELSE LET overflow == total - MAX_LOG_LINES IN
              IF overflow >= Len(previous)
              THEN incoming
              ELSE SliceFrom(previous, overflow) \o incoming

\* Bug variant: on overflow the newest frames are cut instead of the oldest.
appendLogs_EvictNewest(previous, incoming) ==
    IF Len(incoming) = 0 THEN previous
    ELSE LET total == Len(previous) + Len(incoming) IN
         IF total <= MAX_LOG_LINES THEN previous \o incoming
         ELSE SubSeq(previous \o incoming, 1, MAX_LOG_LINES)

\* Bug variant: on any overflow the previous contents are dropped whole.
appendLogs_DropPrevious(previous, incoming) ==
    IF Len(incoming) = 0 THEN previous
    ELSE LET total == Len(previous) + Len(incoming) IN
         IF total <= MAX_LOG_LINES THEN previous \o incoming
         ELSE SliceFrom(incoming, IF Len(incoming) > MAX_LOG_LINES
                                  THEN Len(incoming) - MAX_LOG_LINES ELSE 0)

appendLogs(previous, incoming) ==
    IF Len(incoming) = 0 THEN previous
    ELSE LET total == Len(previous) + Len(incoming) IN
         IF total <= MAX_LOG_LINES THEN previous \o incoming
         ELSE LET overflow == total - MAX_LOG_LINES IN
              IF overflow >= Len(previous)
              THEN SliceFrom(incoming, Len(incoming) - MAX_LOG_LINES)
              ELSE SliceFrom(previous, overflow) \o incoming

----------------------------------------------------------------------------
(* The subscription effect *)

\* Bug variant: a debounce, every event cancels the armed timer and arms a new one.
scheduleFlush_Debounce(s) ==
    /\ timerSeq' = timerSeq + 1
    /\ flushTimerRef' = timerSeq + 1
    /\ timers' = {t \in timers : t.id # flushTimerRef}
                 \cup {[id |-> timerSeq + 1, sub |-> s]}

scheduleFlush(s) ==
    IF flushTimerRef # 0
    THEN UNCHANGED <<flushTimerRef, timers, timerSeq>>
    ELSE /\ timerSeq' = timerSeq + 1
         /\ flushTimerRef' = timerSeq + 1
         /\ timers' = timers \cup {[id |-> timerSeq + 1, sub |-> s]}

\* Bug variant: the handler replaces the pending list instead of pushing onto it.
listenHandler_Overwrite(s, payload) ==
    /\ UNCHANGED logs
    /\ IF payload.dir = "SYS"
       THEN UNCHANGED <<pending, flushTimerRef, timers, timerSeq>>
       ELSE /\ pending' = <<payload>>
            /\ scheduleFlush(s)

\* Bug variant: the handler puts the frame at the front of the pending list.
listenHandler_Unshift(s, payload) ==
    /\ UNCHANGED logs
    /\ IF payload.dir = "SYS"
       THEN UNCHANGED <<pending, flushTimerRef, timers, timerSeq>>
       ELSE /\ pending' = <<payload>> \o pending
            /\ scheduleFlush(s)

\* Bug variant: the SYS filter is missing.
listenHandler_NoSysFilter(s, payload) ==
    /\ UNCHANGED logs
    /\ pending' = Append(pending, payload)
    /\ scheduleFlush(s)

\* Bug variant: the handler appends to the store itself, one setLogs per event.
listenHandler_AppendDirect(s, payload) ==
    /\ UNCHANGED <<pending, flushTimerRef, timers, timerSeq>>
    /\ logs' = IF payload.dir = "SYS" THEN logs ELSE appendLogs(logs, <<payload>>)

listenHandler(s, payload) ==
    /\ UNCHANGED logs
    /\ IF payload.dir = "SYS"
       THEN UNCHANGED <<pending, flushTimerRef, timers, timerSeq>>
       ELSE /\ pending' = Append(pending, payload)
            /\ scheduleFlush(s)

\* Bug variant: the batch is appended but the pending list is not replaced.
flushPending_KeepPending(s) ==
    /\ flushTimerRef' = 0
    /\ IF s \in disposed \/ Len(pending) = 0
       THEN UNCHANGED <<pending, logs, appended, nAppends>> /\ lastBatch' = <<>>
       ELSE /\ UNCHANGED pending
            /\ logs' = appendLogs(logs, pending)
            /\ lastBatch' = pending
            /\ appended' = appended \o pending
            /\ nAppends' = nAppends + 1

\* Bug variant: the flush leaves the fired timer's handle in flushTimerRef.
flushPending_KeepTimerRef(s) ==
    /\ UNCHANGED flushTimerRef
    /\ IF s \in disposed \/ Len(pending) = 0
       THEN UNCHANGED <<pending, logs, appended, nAppends>> /\ lastBatch' = <<>>
       ELSE /\ pending' = <<>>
            /\ logs' = appendLogs(logs, pending)
            /\ lastBatch' = pending
            /\ appended' = appended \o pending
            /\ nAppends' = nAppends + 1

\* Bug variant: the flush does not look at `disposed`.
flushPending_NoDisposedCheck(s) ==
    /\ flushTimerRef' = 0
    /\ IF Len(pending) = 0
       THEN UNCHANGED <<pending, logs, appended, nAppends>> /\ lastBatch' = <<>>
       ELSE /\ pending' = <<>>
            /\ logs' = appendLogs(logs, pending)
            /\ lastBatch' = pending
            /\ appended' = appended \o pending
            /\ nAppends' = nAppends + 1

flushPending(s) ==
    /\ flushTimerRef' = 0
    /\ IF s \in disposed \/ Len(pending) = 0
       THEN UNCHANGED <<pending, logs, appended, nAppends>> /\ lastBatch' = <<>>
       ELSE /\ pending' = <<>>
            /\ logs' = appendLogs(logs, pending)
            /\ lastBatch' = pending
            /\ appended' = appended \o pending
            /\ nAppends' = nAppends + 1

\* Bug variant: the cleanup forgets to cancel the armed timer.
effectCleanup_NoCancel(s) ==
    /\ disposed' = disposed \cup {s}
    /\ pending' = <<>>
    /\ UNCHANGED <<timers, flushTimerRef>>

\* The function the effect returns.  `unlisten.then(cleanup)` only asks for the
\* listener's removal: the transport removes it in a later step (Unlisten).
effectCleanup(s) ==
    /\ disposed' = disposed \cup {s}
    /\ pending' = <<>>
    /\ IF flushTimerRef # 0
       THEN /\ timers' = {t \in timers : t.id # flushTimerRef}
            /\ flushTimerRef' = 0
       ELSE UNCHANGED <<timers, flushTimerRef>>

\* Bug variant: clear() resets the store and leaves the pending list.
clear_KeepPending ==
    /\ UNCHANGED pending
    /\ logs' = <<>>

\* clear(): the callback the hook returns.
clear ==
    /\ pending' = <<>>
    /\ logs' = <<>>

----------------------------------------------------------------------------
(* The state after the hook's first render and effect: an empty store, an  *)
(* empty pending list, no timer, one live subscription.                    *)

Init ==
    /\ logs = <<>>
    /\ pending = <<>>
    /\ flushTimerRef = 0
    /\ timers = {}
    /\ timerSeq = 0
    /\ disposed = {}
    /\ listeners = {1}
    /\ cur = 1
    /\ emitted = <<>>
    /\ lastOp = "init"
    /\ lastBatch = <<>>
    /\ base = <<>>
    /\ appended = <<>>
    /\ cleared = {}
    /\ torn = {}
    /\ nAppends = 0
    /\ nFires = 0
    /\ ViewIdle
    /\ FmtIdle
    /\ LegacyIdle
    /\ SettingsIdle
    /\ PanelIdle

\* The transport emits a 'log' event and a registered listener handles it.
LogEvent ==
    /\ Len(emitted) < MaxEvents
    /\ \E d \in Dirs, s \in listeners :
         LET payload == [id |-> Len(emitted) + 1, dir |-> d] IN
         /\ emitted' = Append(emitted, payload)
         /\ listenHandler(s, payload)
    /\ lastOp' = "event"
    /\ lastBatch' = <<>>
    /\ UNCHANGED <<disposed, listeners, cur, base, appended, cleared, torn,
                   nAppends, nFires>>
    /\ UNCHANGED nonStreamVars

\* An armed timeout fires: the browser drops it and runs flushPending.
TimerFires ==
    /\ \E t \in timers :
         /\ timers' = timers \ {t}
         /\ flushPending(t.sub)
    /\ lastOp' = "timer"
    /\ nFires' = nFires + 1
    /\ UNCHANGED <<timerSeq, disposed, listeners, cur, emitted, base, cleared, torn>>
    /\ UNCHANGED nonStreamVars

\* The user presses Clear (src/src/App.tsx:144) while the hook is mounted.
Clear ==
    /\ cur \notin disposed
    /\ clear
    /\ cleared' = cleared \cup Ids(pending) \cup Ids(logs)
    /\ appended' = <<>>
    /\ lastOp' = "clear"
    /\ lastBatch' = <<>>
    /\ UNCHANGED <<flushTimerRef, timers, timerSeq, disposed, listeners, cur,
                   emitted, base, torn, nAppends, nFires>>
    /\ UNCHANGED nonStreamVars

\* The hook unmounts: React runs the effect's cleanup, once.
Teardown ==
    /\ cur \notin disposed
    /\ effectCleanup(cur)
    /\ torn' = torn \cup Ids(pending)
    /\ lastOp' = "teardown"
    /\ lastBatch' = <<>>
    /\ UNCHANGED <<logs, timerSeq, listeners, cur, emitted, base, appended,
                   cleared, nAppends, nFires>>
    /\ UNCHANGED nonStreamVars

\* The unlisten promise resolves and the transport removes the listener.
Unlisten ==
    /\ \E s \in listeners \cap disposed : listeners' = listeners \ {s}
    /\ lastOp' = "unlisten"
    /\ lastBatch' = <<>>
    /\ UNCHANGED <<logs, pending, flushTimerRef, timers, timerSeq, disposed, cur,
                   emitted, base, appended, cleared, torn, nAppends, nFires>>
    /\ UNCHANGED nonStreamVars

Next ==
    \/ LogEvent
    \/ TimerFires
    \/ Clear
    \/ Teardown
    \/ Unlisten

Spec == Init /\ [][Next]_vars

\* The browser fires every armed timeout.
FairSpec == Spec /\ WF_vars(TimerFires)

----------------------------------------------------------------------------
(* The hook with a cleanup that runs again.  React runs an effect's cleanup *)
(* once; this specification lets it run any number of times, to see that   *)
(* a repeated run changes nothing a flush could use.                       *)

CleanupAgain ==
    /\ cur \in disposed
    /\ effectCleanup(cur)
    /\ torn' = torn \cup Ids(pending)
    /\ lastOp' = "teardown again"
    /\ lastBatch' = <<>>
    /\ UNCHANGED <<logs, timerSeq, listeners, cur, emitted, base, appended,
                   cleared, nAppends, nFires>>
    /\ UNCHANGED nonStreamVars

NextCleanup ==
    \/ LogEvent
    \/ TimerFires
    \/ Clear
    \/ Teardown
    \/ Unlisten
    \/ CleanupAgain

SpecCleanup == Init /\ [][NextCleanup]_vars

----------------------------------------------------------------------------
(* appendLogs on its own: any store the hook can hold, any batches.        *)

\* Two distinguishable frames are enough to see a reordering or a duplicate.
SampleFrames == {[id |-> 1, dir |-> "RX"], [id |-> 2, dir |-> "TX"]}

SeqsUpTo(S, n) == UNION {[1..k -> S] : k \in 0..n}

InitAppend ==
    /\ base \in SeqsUpTo(SampleFrames, MAX_LOG_LINES)
    /\ logs = base
    /\ pending = <<>>
    /\ flushTimerRef = 0
    /\ timers = {}
    /\ timerSeq = 0
    /\ disposed = {}
    /\ listeners = {}
    /\ cur = 1
    /\ emitted = <<>>
    /\ lastOp = "init"
    /\ lastBatch = <<>>
    /\ appended = <<>>
    /\ cleared = {}
    /\ torn = {}
    /\ nAppends = 0
    /\ nFires = 0
    /\ ViewIdle
    /\ FmtIdle
    /\ LegacyIdle
    /\ SettingsIdle
    /\ PanelIdle

\* One call appendLogs(incoming): empty, small or larger than the capacity.
AppendBatch ==
    /\ \E incoming \in SeqsUpTo(SampleFrames, MAX_LOG_LINES + 1) :
         /\ Len(appended) + Len(incoming) <= MaxEvents
         /\ logs' = appendLogs(logs, incoming)
         /\ lastBatch' = incoming
         /\ appended' = appended \o incoming
         /\ nAppends' = nAppends + (IF Len(incoming) = 0 THEN 0 ELSE 1)
    /\ lastOp' = "append"
    /\ UNCHANGED <<pending, flushTimerRef, timers, timerSeq, disposed, listeners,
                   cur, emitted, base, cleared, torn, nFires>>
    /\ UNCHANGED nonStreamVars

SpecAppend == InitAppend /\ [][AppendBatch]_vars

----------------------------------------------------------------------------
(* LogView (src/src/components/LogView.tsx): selection, the clamping       *)
(* effect, the projected window and the scroll coalescer.                  *)
(*                                                                         *)
(* Lengths are in CSS pixels and are integers here.  The row counts are    *)
(* those of the real capacity, 6000 frames, because the projected window   *)
(* only differs from the whole list when the list is longer than the       *)
(* window (at least 10 + 2 * 12 rows).                                     *)

ROW_HEIGHT_PX == 28
HEADER_HEIGHT_PX == 30
OVERSCAN_ROWS == 12

\* The literal 10 of `ROW_HEIGHT_PX * 10`: the least body height, in rows.
MIN_BODY_ROWS == 10

\* MAX_LOG_LINES as the program defines it.
StoreCapacity == 6000

\* Number of appends shown to the view in one behaviour.
MaxViewAppends == 2

\* Row counts LogView is mounted with, sizes of the appended batches, row
\* counts a parent shortens the list to, scroll offsets the user scrolls to
\* and heights the table wrap takes.
InitialRowCounts == {0, 1000}
AppendSizes == {1, 6000}
ShrinkSizes == {20}
ScrollOffsets == {0, 560, 167000}
ViewportHeights == {300, 330}

Max(a, b) == IF a > b THEN a ELSE b

\* Math.floor(a / b) and Math.ceil(a / b) for integers a >= 0, b > 0.
FloorDiv(a, b) == a \div b
CeilDiv(a, b) == (a + b - 1) \div b

\* The least and the greatest element of a non-empty set of integers.
Least(S) == CHOOSE x \in S : \A y \in S : x <= y
Greatest(S) == CHOOSE x \in S : \A y \in S : y <= x

bodyHeight == Max(viewportHeight - HEADER_HEIGHT_PX, ROW_HEIGHT_PX * MIN_BODY_ROWS)

visibleStart ==
    Max(0, FloorDiv(scrollTop, ROW_HEIGHT_PX) - OVERSCAN_ROWS)

\* Bug variant: the end of the window is rounded down.
visibleEnd_Floor ==
    Min(totalRows, FloorDiv(scrollTop + bodyHeight, ROW_HEIGHT_PX) + OVERSCAN_ROWS)

\* Bug variant: no windowing, every row up to the end is materialized.
visibleEnd_NoWindow == totalRows

visibleEnd ==
    Min(totalRows, CeilDiv(scrollTop + bodyHeight, ROW_HEIGHT_PX) + OVERSCAN_ROWS)

\* The indexes of the rows visibleRows holds: the loop from visibleStart to
\* visibleEnd skips an index with no line.
visibleRows == {i \in visibleStart..(visibleEnd - 1) : i < totalRows}

topSpacerHeight == visibleStart * ROW_HEIGHT_PX

bottomSpacerHeight == Max(0, (totalRows - visibleEnd) * ROW_HEIGHT_PX)

\* Height of what the table wrap holds: the header row, the two spacer rows
\* and the materialized rows.
contentHeight ==
    HEADER_HEIGHT_PX + topSpacerHeight
        + Cardinality(visibleRows) * ROW_HEIGHT_PX + bottomSpacerHeight

\* The clamp effect last ran with the values the committed render has.
Settled == effectDeps = <<totalRows, selectedIndex>>

\* Bug variant: the effect only handles the empty list.
clampEffect_NoClamp ==
    IF totalRows = 0
    THEN selectedIndex' = 0 /\ scrollTop' = 0
    ELSE UNCHANGED <<selectedIndex, scrollTop>>

\* Bug variant: the empty list resets the selection but not the scroll state.
clampEffect_KeepScroll ==
    IF totalRows = 0
    THEN selectedIndex' = 0 /\ UNCHANGED scrollTop
    ELSE /\ selectedIndex' = IF selectedIndex >= totalRows
                             THEN totalRows - 1 ELSE selectedIndex
         /\ UNCHANGED scrollTop

\* The effect with dependencies [logs.length, selectedIndex].  When the list
\* is empty the table wrap with the ref is not rendered, so
\* tableWrapRef.current is null and no element is scrolled.
clampEffect ==
    IF totalRows = 0
    THEN selectedIndex' = 0 /\ scrollTop' = 0
    ELSE /\ selectedIndex' = IF selectedIndex >= totalRows
                             THEN totalRows - 1 ELSE selectedIndex
         /\ UNCHANGED scrollTop

\* Bug variant: every scroll event requests an animation frame.
onScroll_NoGuard(v) ==
    /\ pendingScrollTopRef' = v
    /\ LET h == 1 + Greatest(rafs \cup {0}) IN
         /\ scrollRafRef' = h
         /\ rafs' = rafs \cup {h}

\* onScroll: v is event.currentTarget.scrollTop.
onScroll(v) ==
    /\ pendingScrollTopRef' = v
    /\ IF scrollRafRef # 0
       THEN UNCHANGED <<scrollRafRef, rafs>>
       ELSE LET h == 1 + Greatest(rafs \cup {0}) IN
              /\ scrollRafRef' = h
              /\ rafs' = rafs \cup {h}

\* The callback given to requestAnimationFrame.
rafCallback ==
    /\ scrollRafRef' = 0
    /\ scrollTop' = pendingScrollTopRef

\* The length appendLogs leaves and the number of frames it evicts from the
\* front, for a store of previousLen frames and a batch of incomingLen.
appendLen(previousLen, incomingLen) ==
    Min(StoreCapacity, previousLen + incomingLen)

appendEvicts(previousLen, incomingLen) ==
    Min(previousLen, Max(0, previousLen + incomingLen - StoreCapacity))

\* LogView after its first render and its mount effects.  The viewport
\* effect reads clientHeight and starts the ResizeObserver only when the
\* table wrap is rendered, which needs a non-empty list.
InitView ==
    /\ StreamIdle
    /\ FmtIdle
    /\ LegacyIdle
    /\ SettingsIdle
    /\ PanelIdle
    /\ totalRows \in InitialRowCounts
    /\ evictedRows = 0
    /\ selectedIndex = 0
    /\ scrollTop = 0
    /\ viewportHeight \in (IF totalRows = 0 THEN {0} ELSE ViewportHeights)
    /\ scrollRafRef = 0
    /\ rafs = {}
    /\ pendingScrollTopRef = 0
    /\ effectDeps = <<totalRows, 0>>
    /\ observed = (totalRows > 0)
    /\ viewMounted = TRUE
    /\ viewOp = "init"
    /\ clampFrom = <<0, 0>>
    /\ lastScroll = 0
    /\ nViewAppends = 0

\* The store appends a batch and LogView renders the longer list.
PropsAppend ==
    /\ viewMounted
    /\ Settled
    /\ nViewAppends < MaxViewAppends
    /\ \E k \in AppendSizes :
         /\ totalRows' = appendLen(totalRows, k)
         /\ evictedRows' = evictedRows + appendEvicts(totalRows, k)
    /\ nViewAppends' = nViewAppends + 1
    /\ clampFrom' = <<0, 0>>
    /\ viewOp' = "append"
    /\ UNCHANGED <<selectedIndex, scrollTop, viewportHeight, scrollRafRef, rafs,
                   pendingScrollTopRef, effectDeps, observed, viewMounted,
                   lastScroll>>
    /\ UNCHANGED nonViewVars

\* clear() empties the store and LogView renders the empty list: the table
\* wrap is replaced by an empty one, and the observer may report the removed
\* element's height, 0.
PropsClear ==
    /\ viewMounted
    /\ Settled
    /\ totalRows > 0
    /\ totalRows' = 0
    /\ evictedRows' = 0
    /\ observed' = FALSE
    /\ viewportHeight' \in {viewportHeight} \cup (IF observed THEN {0} ELSE {})
    /\ clampFrom' = <<0, 0>>
    /\ viewOp' = "clear"
    /\ UNCHANGED <<selectedIndex, scrollTop, scrollRafRef, rafs,
                   pendingScrollTopRef, effectDeps, viewMounted, lastScroll, nViewAppends>>
    /\ UNCHANGED nonViewVars

\* A parent gives LogView a shorter, non-empty list.
PropsShrink ==
    /\ viewMounted
    /\ Settled
    /\ \E n \in ShrinkSizes :
         /\ n < totalRows
         /\ totalRows' = n
    /\ clampFrom' = <<0, 0>>
    /\ viewOp' = "shrink"
    /\ UNCHANGED <<evictedRows, selectedIndex, scrollTop, viewportHeight,
                   scrollRafRef, rafs, pendingScrollTopRef, effectDeps, observed,
                   viewMounted, lastScroll, nViewAppends>>
    /\ UNCHANGED nonViewVars

\* React runs the clamp effect after a render whose dependencies changed.
ClampEffect ==
    /\ viewMounted
    /\ ~Settled
    /\ clampEffect
    /\ effectDeps' = <<totalRows, selectedIndex>>
    /\ clampFrom' = <<selectedIndex, scrollTop>>
    /\ viewOp' = "clamp"
    /\ UNCHANGED <<totalRows, evictedRows, viewportHeight, scrollRafRef, rafs,
                   pendingScrollTopRef, observed, viewMounted, lastScroll,
                   nViewAppends>>
    /\ UNCHANGED nonViewVars

\* The user clicks a materialized row (the first or the last of the window).
RowClick ==
    /\ viewMounted
    /\ Settled
    /\ visibleRows # {}
    /\ \E i \in {Least(visibleRows), Greatest(visibleRows)} : selectedIndex' = i
    /\ clampFrom' = <<0, 0>>
    /\ viewOp' = "click"
    /\ UNCHANGED <<totalRows, evictedRows, scrollTop, viewportHeight, scrollRafRef,
                   rafs, pendingScrollTopRef, effectDeps, observed, viewMounted,
                   lastScroll, nViewAppends>>
    /\ UNCHANGED nonViewVars

\* The rendered table wrap scrolls to an offset within its content.
Scroll ==
    /\ viewMounted
    /\ totalRows > 0
    /\ \E v \in ScrollOffsets :
         /\ v <= contentHeight
         /\ onScroll(v)
         /\ lastScroll' = v
    /\ clampFrom' = <<0, 0>>
    /\ viewOp' = IF scrollRafRef # 0 THEN "scroll again" ELSE "scroll"
    /\ UNCHANGED <<totalRows, evictedRows, selectedIndex, scrollTop,
                   viewportHeight, effectDeps, observed, viewMounted, nViewAppends>>
    /\ UNCHANGED nonViewVars

\* The browser runs a pending animation-frame callback.
AnimationFrame ==
    /\ \E h \in rafs : rafs' = rafs \ {h}
    /\ rafCallback
    /\ clampFrom' = <<0, 0>>
    /\ viewOp' = "frame"
    /\ UNCHANGED <<totalRows, evictedRows, selectedIndex, viewportHeight,
                   pendingScrollTopRef, effectDeps, observed, viewMounted,
                   lastScroll, nViewAppends>>
    /\ UNCHANGED nonViewVars

\* The ResizeObserver reports a height of the rendered table wrap.
Resize ==
    /\ viewMounted
    /\ observed
    /\ \E h \in ViewportHeights : viewportHeight' = h
    /\ clampFrom' = <<0, 0>>
    /\ viewOp' = "resize"
    /\ UNCHANGED <<totalRows, evictedRows, selectedIndex, scrollTop, scrollRafRef,
                   rafs, pendingScrollTopRef, effectDeps, observed, viewMounted,
                   lastScroll, nViewAppends>>
    /\ UNCHANGED nonViewVars

\* LogView unmounts: the cleanup cancels the pending animation frame.
ViewUnmount ==
    /\ viewMounted
    /\ viewMounted' = FALSE
    /\ rafs' = IF scrollRafRef # 0 THEN rafs \ {scrollRafRef} ELSE rafs
    /\ observed' = FALSE
    /\ clampFrom' = <<0, 0>>
    /\ viewOp' = "unmount"
    /\ UNCHANGED <<totalRows, evictedRows, selectedIndex, scrollTop,
                   viewportHeight, scrollRafRef, pendingScrollTopRef, effectDeps,
                   lastScroll, nViewAppends>>
    /\ UNCHANGED nonViewVars

\* LogView as a component: any list a parent may give it.
NextView ==
    \/ PropsAppend
    \/ PropsClear
    \/ PropsShrink
    \/ ClampEffect
    \/ RowClick
    \/ Scroll
    \/ AnimationFrame
    \/ Resize
    \/ ViewUnmount

SpecView == InitView /\ [][NextView]_vars

\* LogView inside App: mounted once with the empty store of useLogStream,
\* whose list only grows, loses frames at the front, or is cleared.
InitViewApp ==
    /\ StreamIdle
    /\ FmtIdle
    /\ LegacyIdle
    /\ SettingsIdle
    /\ PanelIdle
    /\ ViewIdle

NextViewApp ==
    \/ PropsAppend
    \/ PropsClear
    \/ ClampEffect
    \/ RowClick
    \/ Scroll
    \/ AnimationFrame

SpecViewApp == InitViewApp /\ [][NextViewApp]_vars

----------------------------------------------------------------------------
(* The frame formatter: formatPayload (src/src/lib/format.ts) and the     *)
(* newline markers of the earlier single-file App (src/unnamed/part_000). *)
(*                                                                         *)
(* A string is a sequence of characters, each a one-character string; the  *)
(* glyphs U+23CE, U+240A and U+240D are written by their code points, and  *)
(* an HTML tag of the earlier markers is one element, since no tag holds   *)
(* a CR or an LF.                                                          *)

\* Longest byte sequence and longest text given to the formatter.
MaxBytes == 3
MaxTextLen == 4

\* Bytes of every hex-digit shape: both digits 0, a one-digit value, digits
\* above 9 in either place, the greatest byte.
ByteSamples == {0, 10, 171, 255}

\* The characters of a text: CR, LF and one that is neither.
TextChars == {"\r", "\n", "a"}

LowerDigits ==
    <<"0", "1", "2", "3", "4", "5", "6", "7", "8", "9", "a", "b", "c", "d", "e", "f">>

\* Number.prototype.toString(16) for 0 <= n: no leading zeros, lower case.
RECURSIVE toString16(_)
toString16(n) ==
    IF n < 16 THEN <<LowerDigits[n + 1]>>
    ELSE Append(toString16(n \div 16), LowerDigits[(n % 16) + 1])

\* String.prototype.toUpperCase on the characters toString(16) produces.
UpperChar(c) ==
    CASE c = "a" -> "A" [] c = "b" -> "B" [] c = "c" -> "C"
      [] c = "d" -> "D" [] c = "e" -> "E" [] c = "f" -> "F"
      [] OTHER -> c

toUpperCase(str) == [k \in 1..Len(str) |-> UpperChar(str[k])]

\* String.prototype.padStart(targetLength, padChar).
RECURSIVE padStart(_, _, _)
padStart(str, targetLength, padChar) ==
    IF Len(str) >= targetLength THEN str
    ELSE padStart(<<padChar>> \o str, targetLength, padChar)

\* Array.prototype.join(separator) on an array of strings.
RECURSIVE join(_, _)
join(parts, separator) ==
    IF Len(parts) = 0 THEN <<>>
    ELSE IF Len(parts) = 1 THEN parts[1]
    ELSE parts[1] \o separator \o join(Tail(parts), separator)

\* The positions of str where pattern occurs.
Occurrences(str, pattern) ==
    {i \in 1..(Len(str) - Len(pattern) + 1) :
        SubSeq(str, i, i + Len(pattern) - 1) = pattern}

\* String.prototype.replaceAll(pattern, replacement) for a non-empty string
\* pattern: the matches are found from the left and do not overlap.  The
\* text before the leftmost occurrence is copied, the occurrence replaced,
\* and the search goes on behind it.
RECURSIVE replaceAll(_, _, _)
replaceAll(str, pattern, replacement) ==
    LET occ == Occurrences(str, pattern) IN
    IF occ = {} THEN str
    ELSE LET first == CHOOSE i \in occ : \A j \in occ : i <= j IN
         SubSeq(str, 1, first - 1) \o replacement
             \o replaceAll(SubSeq(str, first + Len(pattern), Len(str)),
                           pattern, replacement)

CRLF_MARK == <<"U+23CE", "C", "R", "L", "F", " ">>
LF_MARK == <<"U+240A", "L", "F", " ">>
CR_MARK == <<"U+240D", "C", "R", " ">>

\* Bug variant: hex digits are left in lower case.
formatPayload_LowerCase(raw, mode, text) ==
    IF mode = "hex"
    THEN join([k \in 1..Len(raw) |-> padStart(toString16(raw[k]), 2, "0")], <<" ">>)
    ELSE replaceAll(replaceAll(replaceAll(text, <<"\r", "\n">>, CRLF_MARK),
                               <<"\n">>, LF_MARK),
                    <<"\r">>, CR_MARK)

\* Bug variant: the lone LF is replaced before the CRLF pair.
formatPayload_LfFirst(raw, mode, text) ==
    IF mode = "hex"
    THEN join([k \in 1..Len(raw) |->
                  padStart(toUpperCase(toString16(raw[k])), 2, "0")], <<" ">>)
    ELSE replaceAll(replaceAll(replaceAll(text, <<"\n">>, LF_MARK),
                               <<"\r", "\n">>, CRLF_MARK),
                    <<"\r">>, CR_MARK)

formatPayload(raw, mode, text) ==
    IF mode = "hex"
    THEN join([k \in 1..Len(raw) |->
                  padStart(toUpperCase(toString16(raw[k])), 2, "0")], <<" ">>)
    ELSE replaceAll(replaceAll(replaceAll(text, <<"\r", "\n">>, CRLF_MARK),
                               <<"\n">>, LF_MARK),
                    <<"\r">>, CR_MARK)

\* The markers of the earlier App: the glyph and name inside a span.
NLCRLF == <<"<span class=nlcrlf>", "U+23CE", "C", "R", "L", "F", "</span>">>
NLCR == <<"<span class=nlcr>", "U+240D", "C", "R", "</span>">>
NLLF == <<"<span class=nllf>", "U+240A", "L", "F", "</span>">>

showNL(str) ==
    replaceAll(replaceAll(replaceAll(str, <<"\r", "\n">>, NLCRLF),
                          <<"\r">>, NLCR),
               <<"\n">>, NLLF)

\* One frame's bytes and text: every single byte, and the sequences and the
\* texts over the samples.
InitFormat ==
    /\ StreamIdle
    /\ ViewIdle
    /\ LegacyIdle
    /\ SettingsIdle
    /\ PanelIdle
    /\ fmtRaw \in SeqsUpTo(ByteSamples, MaxBytes) \cup [1..1 -> 0..255]
    /\ fmtText \in SeqsUpTo(TextChars, MaxTextLen)
    /\ fmtMode = "none"
    /\ fmtOut = <<>>
    /\ fmtPreview = <<>>

\* LogView formats the frame in the chosen view mode.
FormatFrame ==
    /\ fmtMode = "none"
    /\ \E mode \in {"hex", "ascii"} :
         /\ fmtMode' = mode
         /\ fmtOut' = formatPayload(fmtRaw, mode, fmtText)
    /\ UNCHANGED <<fmtRaw, fmtText, fmtPreview>>
    /\ UNCHANGED nonFmtVars

\* The earlier App marks the newlines of the frame's text.
FormatLegacy ==
    /\ fmtMode = "none"
    /\ fmtMode' = "legacy"
    /\ fmtOut' = showNL(fmtText)
    /\ UNCHANGED <<fmtRaw, fmtText, fmtPreview>>
    /\ UNCHANGED nonFmtVars

NextFormat ==
    \/ FormatFrame
    \/ FormatLegacy

SpecFormat == InitFormat /\ [][NextFormat]_vars

----------------------------------------------------------------------------
(* useLogFeed of the earlier single-file App (src/unnamed/part_000:83-90): *)
(* the listener appends every event's frame to the store itself.           *)

\* The earlier App after its first render: an empty store, one listener.
InitLegacyFeed ==
    /\ Init

\* (e) => setLogs((prev) => [...prev, e.payload])
legacyListenHandler(payload) ==
    logs' = Append(logs, payload)

\* The transport emits a 'log' event.
LegacyLogEvent ==
    /\ Len(emitted) < MaxEvents
    /\ listeners # {}
    /\ \E d \in Dirs :
         LET payload == [id |-> Len(emitted) + 1, dir |-> d] IN
         /\ emitted' = Append(emitted, payload)
         /\ legacyListenHandler(payload)
    /\ lastOp' = "event"
    /\ UNCHANGED <<pending, flushTimerRef, timers, timerSeq, disposed, listeners,
                   cur, lastBatch, base, appended, cleared, torn, nAppends,
                   nFires>>
    /\ UNCHANGED nonStreamVars

\* clear: () => setLogs([])
LegacyClear ==
    /\ logs' = <<>>
    /\ cleared' = cleared \cup Ids(logs)
    /\ lastOp' = "clear"
    /\ UNCHANGED <<pending, flushTimerRef, timers, timerSeq, disposed, listeners,
                   cur, emitted, lastBatch, base, appended, torn, nAppends,
                   nFires>>
    /\ UNCHANGED nonStreamVars

NextLegacyFeed ==
    \/ LegacyLogEvent
    \/ LegacyClear

SpecLegacyFeed == InitLegacyFeed /\ [][NextLegacyFeed]_vars

----------------------------------------------------------------------------
(* The row preview: makePreview (src/src/components/LogView.tsx:206-208)   *)
(* of the formatted payload.                                               *)

\* The length slice(0, 120) cuts the preview to.
PREVIEW_CHARS == 120

\* Longest head of a text given to the preview.
MaxHeadLen == 2

\* Characters of a text's head: a space, a tab, an LF and one that is no
\* whitespace.  Numbers of further characters that follow or precede the
\* head, so that the formatted payload ends before, at and after the cut.
PreviewChars == {" ", "\t", "\n", "a"}
PadLengths == {0, 117, 118, 121}

\* The characters the class \s matches, among those of the model's strings.
IsSpace(c) == c \in {" ", "\t", "\n", "\r"}

\* String.prototype.replace(/\s+/g, replacement): every maximal run of
\* whitespace is replaced.
\* replacement is one character: the first character of a run becomes the
\* replacement and the other characters of the run are left out.
replaceSpaceRuns(str, replacement) ==
    LET marked == [i \in 1..Len(str) |->
                     IF ~IsSpace(str[i]) THEN str[i]
                     ELSE IF i > 1 /\ IsSpace(str[i - 1]) THEN "(left out)"
                     ELSE replacement]
    IN SelectSeq(marked, LAMBDA c : c # "(left out)")

\* String.prototype.trim(): from the first to the last character that is no
\* whitespace.
trim(str) ==
    LET solid == {i \in 1..Len(str) : ~IsSpace(str[i])} IN
    IF solid = {} THEN <<>>
    ELSE SubSeq(str, Least(solid), Greatest(solid))

\* String.prototype.slice(0, end) for 0 <= end.
SliceTo(str, end) == SubSeq(str, 1, Min(end, Len(str)))

\* Bug variant: the collapsed string is not trimmed.
makePreview_NoTrim(source) ==
    SliceTo(replaceSpaceRuns(source, " "), PREVIEW_CHARS)

makePreview(source) ==
    SliceTo(trim(replaceSpaceRuns(source, " ")), PREVIEW_CHARS)

\* n copies of the character c.
Pad(c, n) == [k \in 1..n |-> c]

\* One frame's text: a short head over the sample characters, alone or
\* before or after a long run of a plain character.
InitPreview ==
    /\ StreamIdle
    /\ ViewIdle
    /\ LegacyIdle
    /\ SettingsIdle
    /\ PanelIdle
    /\ fmtRaw \in {<<>>, <<10, 171>>}
    /\ \E head \in SeqsUpTo(PreviewChars, MaxHeadLen), n \in PadLengths :
          fmtText \in {head \o Pad("a", n), Pad("a", n) \o head}
    /\ fmtMode = "none"
    /\ fmtOut = <<>>
    /\ fmtPreview = <<>>

\* visibleRows materializes the row: the payload is formatted in the view
\* mode and the preview is made from it.
PreviewRow ==
    /\ fmtMode = "none"
    /\ \E mode \in {"hex", "ascii"} :
         /\ fmtMode' = mode
         /\ fmtOut' = formatPayload(fmtRaw, mode, fmtText)
         /\ fmtPreview' = makePreview(formatPayload(fmtRaw, mode, fmtText))
    /\ UNCHANGED <<fmtRaw, fmtText>>
    /\ UNCHANGED nonFmtVars

SpecPreview == InitPreview /\ [][PreviewRow]_vars

----------------------------------------------------------------------------
(* The filter and the renderer of the earlier single-file App              *)
(* (src/unnamed/part_000): `filtered` (131-143) and renderLogs (803-863).  *)
(*                                                                         *)
(* Texts and patterns are strings over a lower-case letter, its upper-case *)
(* letter, an opening parenthesis and an ampersand.  A pattern over these  *)
(* characters is a valid regular expression exactly when it holds no       *)
(* parenthesis without a backslash (an unterminated group), and then it    *)
(* matches its own characters.                                             *)

\* Longest list of frames.
MaxLegacyLogs == 2

LegacyTexts == {<<"z">>, <<"Z">>, <<"(">>, <<"z", "(">>, <<"&">>}
LegacyFilters == {<<>>, <<"z">>, <<"Z">>, <<"(">>}
ConnIds == {"main", "tab2"}

\* The UTF-8 byte of a character of the texts.
CharCode(c) ==
    CASE c = "z" -> 122 [] c = "Z" -> 90 [] c = "(" -> 40 [] c = "&" -> 38

\* LogLine.raw of a frame: the bytes of its text.
RawOf(text) == [k \in 1..Len(text) |-> CharCode(text[k])]

\* The lower-case form of a character, as the flag i compares characters
\* (the upper-case letters of the model's strings are Z and the hex
\* digits').
LowerChar(c) ==
    CASE c = "A" -> "a" [] c = "B" -> "b" [] c = "C" -> "c"
      [] c = "D" -> "d" [] c = "E" -> "e" [] c = "F" -> "f"
      [] c = "Z" -> "z" [] OTHER -> c

toLowerCase(str) == [k \in 1..Len(str) |-> LowerChar(str[k])]

\* The characters of a pattern a backslash stands before.
Escaped(pattern) == {k \in 2..Len(pattern) : pattern[k - 1] = "\\"}

\* new RegExp(pattern, flags) throws a SyntaxError for these patterns: a
\* parenthesis that no backslash escapes opens a group that is never closed.
RegExpThrows(pattern) ==
    \E k \in 1..Len(pattern) : pattern[k] = "(" /\ k \notin Escaped(pattern)

\* The characters a pattern that compiles matches: its own, without the
\* escaping backslashes.
Literal(pattern) ==
    LET keep == {k \in 1..Len(pattern) :
                    pattern[k] # "\\" \/ k \in Escaped(pattern)}
        nth(n) == CHOOSE k \in keep : Cardinality({j \in keep : j <= k}) = n
    IN [n \in 1..Cardinality(keep) |-> pattern[nth(n)]]

\* String.prototype.includes(search).
includes(str, search) == Len(search) = 0 \/ Occurrences(str, search) # {}

\* The positions from which a valid pattern matches str under the flag i.
MatchesCI(str, pattern) ==
    Occurrences(toLowerCase(str), toLowerCase(Literal(pattern)))

\* RegExp.prototype.test of a pattern compiled with the flag i only.
test(pattern, str) == Len(pattern) = 0 \/ MatchesCI(str, pattern) # {}

\* RegExp.prototype.test of a non-empty pattern compiled with the flags gi:
\* the search starts at lastIndex (index 0 is position 1); a match moves
\* lastIndex behind it, a failure resets lastIndex to 0.
testGlobal(pattern, str, lastIndex) ==
    LET from == {i \in MatchesCI(str, pattern) : i > lastIndex} IN
    IF lastIndex > Len(str) \/ from = {}
    THEN [found |-> FALSE, lastIndex |-> 0]
    ELSE [found |-> TRUE,
          lastIndex |-> (CHOOSE i \in from : \A j \in from : i <= j)
                            + Len(Literal(pattern)) - 1]

\* logs.filter(l => l.connId === activeConnId || activeConnId === 'all')
InScope(lines, activeConnId) ==
    SelectSeq(lines, LAMBDA l : l.connId = activeConnId \/ activeConnId = "all")

\* Bug variant: the scope is not applied.
filtered_IgnoreScope(lines, filter, useRegex, activeConnId) ==
    LET result == lines IN
    IF Len(filter) = 0 THEN result
    ELSE IF useRegex
    THEN IF RegExpThrows(filter) THEN result
         ELSE SelectSeq(result, LAMBDA l : test(filter, l.text))
    ELSE SelectSeq(result, LAMBDA l : includes(l.text, filter))

\* The useMemo callback of `filtered`.  The constructor's SyntaxError is
\* caught and the scoped list returned.
filtered(lines, filter, useRegex, activeConnId) ==
    LET result == InScope(lines, activeConnId) IN
    IF Len(filter) = 0 THEN result
    ELSE IF useRegex
    THEN IF RegExpThrows(filter) THEN result
         ELSE SelectSeq(result, LAMBDA l : test(filter, l.text))
    ELSE SelectSeq(result, LAMBDA l : includes(l.text, filter))

\* filterRe of renderLogs is a RegExp (and not null) exactly when the filter
\* is used as a pattern and compiles; the SyntaxError is caught.
filterRe(filter, useRegex) ==
    useRegex /\ Len(filter) # 0 /\ ~RegExpThrows(filter)

\* The text renderLogs matches and shows: the frame's text, or its bytes in
\* hex (fmtHex is the hex branch of formatPayload, word for word).
RenderText(l, view) ==
    IF view = "ascii" THEN l.text ELSE formatPayload(RawOf(l.text), "hex", l.text)

\* const match = (s) => !filter || (filterRe ? filterRe.test(s) : s.includes(filter))
\* with the lastIndex filterRe has before the call; the result and the
\* lastIndex it has after it.
match(s, filter, useRegex, lastIndex) ==
    IF Len(filter) = 0 THEN [found |-> TRUE, lastIndex |-> lastIndex]
    ELSE IF filterRe(filter, useRegex) THEN testGlobal(filter, s, lastIndex)
    ELSE [found |-> includes(s, filter), lastIndex |-> lastIndex]

\* escapeHtml (865-867).
escapeHtml(str) ==
    replaceAll(replaceAll(replaceAll(str, <<"&">>, <<"&", "a", "m", "p", ";">>),
                          <<"<">>, <<"&", "l", "t", ";">>),
               <<">">>, <<"&", "g", "t", ";">>)

\* escapeRegex (869-871): a backslash before every character of the class;
\* of the characters of the model's strings the class holds "(" and "\".
RECURSIVE escapeRegex(_)
escapeRegex(str) ==
    IF Len(str) = 0 THEN <<>>
    ELSE (IF Head(str) \in {"(", "\\"} THEN <<"\\", Head(str)>> ELSE <<Head(str)>>)
             \o escapeRegex(Tail(str))

MARK_OPEN == <<"<", "m", "a", "r", "k", ">">>
MARK_CLOSE == <<"<", "/", "m", "a", "r", "k", ">">>
SPAN_CLOSE == <<"<", "/", "s", "p", "a", "n", ">">>

\* `<span style="background-color: ${rule.color}; padding: 0 2px;">`
SpanOpen(color) ==
    <<"<", "s", "p", "a", "n", " ", "s", "t", "y", "l", "e", "=", "\"", "b", "a", "c", "k", "g", "r", "o", "u", "n", "d", "-", "c", "o", "l", "o", "r", ":", " ">>
        \o color \o <<";", " ", "p", "a", "d", "d", "i", "n", "g", ":", " ", "0", " ", "2", "p", "x", ";", "\"", ">">>

\* str.replace(re, match => open + match + close) for a pattern compiled
\* with the flags gi: every match, from the left and not overlapping, is
\* wrapped as it stands in str.
RECURSIVE wrapMatches(_, _, _, _)
wrapMatches(str, pattern, open, close) ==
    LET occ == MatchesCI(str, pattern)
        n == Len(Literal(pattern))
    IN IF occ = {} \/ n = 0 THEN str
       ELSE LET first == CHOOSE i \in occ : \A j \in occ : i <= j IN
            SubSeq(str, 1, first - 1) \o open
                \o SubSeq(str, first, first + n - 1) \o close
                \o wrapMatches(SubSeq(str, first + n, Len(str)), pattern, open, close)

\* The source of the RegExp the forEach callback builds for a rule.
RuleSource(rule) == IF rule.isRegex THEN rule.pattern ELSE escapeRegex(rule.pattern)

\* The forEach callback returns at once, or catches the SyntaxError.
RuleSkipped(rule) ==
    \/ ~rule.enabled
    \/ Len(rule.pattern) = 0
    \/ RegExpThrows(RuleSource(rule))

\* Bug variant: a disabled rule is applied.
RECURSIVE forEachRule_ApplyDisabled(_, _)
forEachRule_ApplyDisabled(result, colorRules) ==
    IF Len(colorRules) = 0 THEN result
    ELSE LET rule == Head(colorRules) IN
         forEachRule_ApplyDisabled(
             IF Len(rule.pattern) = 0 \/ RegExpThrows(RuleSource(rule)) THEN result
             ELSE wrapMatches(result, RuleSource(rule), SpanOpen(rule.color), SPAN_CLOSE),
             Tail(colorRules))

\* colorRules.forEach(...) of applyColorRules (833-843) on the text so far.
RECURSIVE forEachRule(_, _)
forEachRule(result, colorRules) ==
    IF Len(colorRules) = 0 THEN result
    ELSE LET rule == Head(colorRules) IN
         forEachRule(
             IF RuleSkipped(rule) THEN result
             ELSE wrapMatches(result, RuleSource(rule), SpanOpen(rule.color), SPAN_CLOSE),
             Tail(colorRules))

\* Whether applyColorRules marks the filter's matches (824-831): both
\* branches build the same RegExp, outside any try.
Highlights(filter, useRegex) ==
    Len(filter) # 0 /\ (useRegex => filterRe(filter, useRegex))

\* applyColorRules (822-845).
applyColorRules(text, filter, useRegex, colorRules) ==
    LET escaped == escapeHtml(text)
        marked == IF Highlights(filter, useRegex)
                  THEN wrapMatches(escaped, escapeRegex(filter), MARK_OPEN, MARK_CLOSE)
                  ELSE escaped
    IN forEachRule(marked, colorRules)

\* Whether a SyntaxError leaves renderLogs: the constructors of 810-813 and
\* 836-842 are inside try blocks, the one of the highlight is not.
renderLogsThrows(list, filter, useRegex) ==
    /\ Len(list) # 0
    /\ Highlights(filter, useRegex)
    /\ RegExpThrows(escapeRegex(filter))

\* list.map of renderLogs (847-862): for every frame `match` accepts, its
\* id and its body.  filterRe is one object for the whole list, so its
\* lastIndex goes from one frame's test to the next.
RECURSIVE renderFrom(_, _, _, _, _, _)
renderFrom(list, view, filter, useRegex, colorRules, lastIndex) ==
    IF Len(list) = 0 THEN <<>>
    ELSE LET l == Head(list)
             text == RenderText(l, view)
             m == match(text, filter, useRegex, lastIndex)
             body == IF view = "ascii"
                     THEN showNL(applyColorRules(text, filter, useRegex, colorRules))
                     ELSE text
         IN (IF m.found THEN <<[id |-> l.id, body |-> body]>> ELSE <<>>)
                \o renderFrom(Tail(list), view, filter, useRegex, colorRules,
                              m.lastIndex)

renderLogs(list, view, filter, useRegex, colorRules) ==
    renderFrom(list, view, filter, useRegex, colorRules, 0)

\* The lists of at most n frames, numbered in order, over the sample texts
\* and the connections.
LegacyLists(n) ==
    {[k \in 1..m |-> [id |-> k, connId |-> c[k], text |-> t[k]]] :
        <<m, c, t>> \in {<<m, c, t>> \in (0..n) \X SeqsUpTo(ConnIds, n)
                                              \X SeqsUpTo(LegacyTexts, n) :
                            Len(c) = m /\ Len(t) = m}}

\* A render of the App with a list of frames, a connection scope, a filter
\* text, the regex switch and a view mode; no highlight rules.
InitLegacyRender ==
    /\ StreamIdle
    /\ ViewIdle
    /\ FmtIdle
    /\ SettingsIdle
    /\ PanelIdle
    /\ lgLogs \in LegacyLists(MaxLegacyLogs)
    /\ lgConn \in {"main", "all"}
    /\ lgFilter \in LegacyFilters
    /\ lgUseRegex \in BOOLEAN
    /\ lgView \in {"ascii", "hex"}
    /\ lgRules = <<>>
    /\ lgFiltered = <<>>
    /\ lgRendered = <<>>
    /\ lgBodies = <<>>
    /\ lgThrew = FALSE
    /\ lgDone = FALSE

\* One render (434-441): `filtered` is computed from the state and handed
\* to renderLogs with the same filter, switch and view.
LegacyRender ==
    /\ ~lgDone
    /\ lgFiltered' = filtered(lgLogs, lgFilter, lgUseRegex, lgConn)
    /\ lgThrew' = renderLogsThrows(lgFiltered', lgFilter, lgUseRegex)
    /\ LET out == IF lgThrew' THEN <<>>
                  ELSE renderLogs(lgFiltered', lgView, lgFilter, lgUseRegex, lgRules)
       IN /\ lgRendered' = [k \in 1..Len(out) |-> out[k].id]
          /\ lgBodies' = [k \in 1..Len(out) |-> out[k].body]
    /\ lgDone' = TRUE
    /\ UNCHANGED <<lgLogs, lgConn, lgFilter, lgUseRegex, lgView, lgRules>>
    /\ UNCHANGED nonLegacyVars

SpecLegacyRender == InitLegacyRender /\ [][LegacyRender]_vars

\* Longest list of highlight rules.
MaxRules == 2

RuleColor == <<"#", "f", "0", "0">>
RuleSamples ==
    [enabled : BOOLEAN, pattern : {<<>>, <<"z">>, <<"(">>}, isRegex : BOOLEAN,
     color : {RuleColor}]

\* A render of one frame in the text view under a list of highlight rules.
InitColorRules ==
    /\ StreamIdle
    /\ ViewIdle
    /\ FmtIdle
    /\ SettingsIdle
    /\ PanelIdle
    /\ \E t \in LegacyTexts : lgLogs = <<[id |-> 1, connId |-> "main", text |-> t]>>
    /\ lgConn = "all"
    /\ lgFilter \in {<<>>, <<"z">>}
    /\ lgUseRegex \in BOOLEAN
    /\ lgView = "ascii"
    /\ lgRules \in SeqsUpTo(RuleSamples, MaxRules)
    /\ lgFiltered = <<>>
    /\ lgRendered = <<>>
    /\ lgBodies = <<>>
    /\ lgThrew = FALSE
    /\ lgDone = FALSE

SpecColorRules == InitColorRules /\ [][LegacyRender]_vars

----------------------------------------------------------------------------
(* The persisted settings: loadSettings and saveSettings                   *)
(* (src/src/lib/format.ts:33-88) as App.tsx:13-17 calls them.              *)
(*                                                                         *)
(* A settings record is a function from field names to values; the nested  *)
(* serial and socket records are such functions too.  The entry of the     *)
(* storage holds no text ("absent"), the empty text ("empty"), a text that *)
(* JSON.parse rejects ("malformed"), the text null ("null") or the text of *)
(* a record ("record", with the record it parses to).                      *)

defaultSettings ==
    [mode |-> "serial", viewMode |-> "ascii",
     serial |-> [baud |-> 115200, dataBits |-> 8, parity |-> "none",
                 stopBits |-> 1, flow |-> "none", append |-> "lf"],
     socket |-> [host |-> "127.0.0.1", port |-> 12345, proto |-> "tcp",
                 append |-> "lf"]]

\* Values a stored record may hold: for every field of the settings one that
\* is not its default, and a field the settings no longer have.
StoredValues ==
    [mode |-> "socket", viewMode |-> "hex", filter |-> "rx",
     serial |-> [baud |-> 9600, dataBits |-> 7, parity |-> "even",
                 stopBits |-> 2, flow |-> "hardware", append |-> "crlf"],
     socket |-> [host |-> "10.0.0.2", port |-> 502, proto |-> "udp",
                 append |-> "none"]]

\* The records with some of the fields of StoredValues, at the top and
\* inside serial and socket.
StoredRecords ==
    {[k \in top |-> IF k = "serial" THEN [f \in ser |-> StoredValues.serial[f]]
                    ELSE IF k = "socket" THEN [f \in soc |-> StoredValues.socket[f]]
                    ELSE StoredValues[k]] :
        <<top, ser, soc>> \in
            {<<top, ser, soc>> \in (SUBSET DOMAIN StoredValues)
                                       \X (SUBSET DOMAIN StoredValues.serial)
                                       \X (SUBSET DOMAIN StoredValues.socket) :
                /\ "serial" \notin top => ser = {}
                /\ "socket" \notin top => soc = {}}}

\* The object spread { ...a, ...b }: the properties of a, then those of b
\* over them.
Spread(a, b) ==
    [k \in DOMAIN a \cup DOMAIN b |-> IF k \in DOMAIN b THEN b[k] ELSE a[k]]

\* Bug variant: the nested records are not merged with their defaults.
loadSettings_ShallowMerge(storage) ==
    IF storage.denied \/ storage.kind # "record" THEN defaultSettings
    ELSE Spread(defaultSettings, storage.value)

\* loadSettings (56-80).  getItem throws when access is denied, JSON.parse
\* throws on a malformed text, and `parsed.serial` throws when the text is
\* null; the catch returns the defaults.  `parsed.serial ?? {}` is the
\* empty record when the stored record has no serial.
loadSettings(storage) ==
    IF storage.denied THEN defaultSettings
    ELSE IF storage.kind \in {"absent", "empty"} THEN defaultSettings
    ELSE IF storage.kind \in {"malformed", "null"} THEN defaultSettings
    ELSE LET parsed == storage.value
             nested(g) == IF g \in DOMAIN parsed THEN parsed[g] ELSE <<>>
         IN Spread(Spread(defaultSettings, parsed),
                   [serial |-> Spread(defaultSettings.serial, nested("serial")),
                    socket |-> Spread(defaultSettings.socket, nested("socket"))])

\* saveSettings (82-88): setItem throws when access is denied or the quota is
\* used up; the catch ignores it and the entry stays as it was.
saveSettings(settings, storage, quotaLeft) ==
    IF storage.denied \/ ~quotaLeft THEN [raised |-> FALSE, storage |-> storage]
    ELSE [raised |-> FALSE,
          storage |-> [denied |-> FALSE, kind |-> "record", value |-> settings]]

InitSettings ==
    /\ StreamIdle
    /\ ViewIdle
    /\ FmtIdle
    /\ LegacyIdle
    /\ PanelIdle
    /\ stStorage \in
          [denied : BOOLEAN, kind : {"absent", "empty", "malformed", "null"},
           value : {<<>>}]
          \cup [denied : BOOLEAN, kind : {"record"}, value : StoredRecords]
    /\ stSettings = <<>>
    /\ stRaised = FALSE
    /\ stOp = "none"

\* App.tsx:13: the settings state starts as loadSettings().
AppMount ==
    /\ stOp = "none"
    /\ stSettings' = loadSettings(stStorage)
    /\ stOp' = "load"
    /\ UNCHANGED <<stStorage, stRaised>>
    /\ UNCHANGED nonSettingsVars

\* App.tsx:16-18: the effect saves the settings after the mount and after
\* every change of them.
PersistEffect ==
    /\ stOp \in {"load", "change"}
    /\ \E quotaLeft \in BOOLEAN :
        LET r == saveSettings(stSettings, stStorage, quotaLeft) IN
        /\ stStorage' = r.storage
        /\ stRaised' = r.raised
        /\ stOp' = IF stStorage.denied \/ ~quotaLeft THEN "save failed" ELSE "save"
    /\ UNCHANGED stSettings
    /\ UNCHANGED nonSettingsVars

\* A panel changes a setting (the view mode, here).
ChangeSettings ==
    /\ stOp \in {"save", "save failed"}
    /\ \E v \in {"ascii", "hex"} :
        /\ v # stSettings.viewMode
        /\ stSettings' = Spread(stSettings, [viewMode |-> v])
    /\ stOp' = "change"
    /\ UNCHANGED <<stStorage, stRaised>>
    /\ UNCHANGED nonSettingsVars

NextSettings == AppMount \/ PersistEffect \/ ChangeSettings

SpecSettings == InitSettings /\ [][NextSettings]_vars

----------------------------------------------------------------------------
(* The connection panels: connect, disconnect and send of SerialPanel      *)
(* (src/src/components/SerialPanel.tsx:57-122) and SocketPanel             *)
(* (src/src/components/SocketPanel.tsx:26-88), and refreshStatus and the   *)
(* poll of useConnectionStatus (src/src/hooks/useConnectionStatus.ts).     *)
(*                                                                         *)
(* A handler runs up to its `await invoke(...)`, goes on when the transport *)
(* settles the call, and (connect, disconnect, and send after a failure)   *)
(* goes on once more when the status query of refreshStatus settles.  The  *)
(* code after `await refreshStatus()` runs in the same task as the         *)
(* setConnected of refreshStatus.  A panel's buttons and its input are     *)
(* disabled as the handlers' guards say (SerialPanel.tsx:221-241,          *)
(* SocketPanel.tsx:144-164); a port is selected.                           *)

\* Most handler calls waiting at a time, and most 'log' events while a panel
\* is watched.
MaxCalls == 2
MaxPanelEvents == 1

\* The i-th element of a sequence removed.
RemoveAt(seq, i) == SubSeq(seq, 1, i - 1) \o SubSeq(seq, i + 1, Len(seq))

\* What the transport answers to the status command: its state, or an error.
StatusAnswers == {IF pnBackend THEN "true" ELSE "false", "error"}

\* Bug variant: the answer of the status query is dropped.
refreshStatus_KeepStatus(answer) == pnConnected' = pnConnected

\* refreshStatus (useConnectionStatus.ts:11-20): setConnected(next), or
\* setConnected(false) when the invoke rejects.
refreshStatus(answer) == pnConnected' = (answer = "true")

\* Bug variant: connect does not look at `working`.
Connect_NoWorkingGuard ==
    /\ ~pnConnected
    /\ Len(pnCalls) < MaxCalls
    /\ pnWorking' = TRUE
    /\ pnCalls' = Append(pnCalls, [handler |-> "connection", awaits |-> "invoke", hook |-> pnHook])
    /\ pnOp' = "call"
    /\ pnAnswer' = "none"
    /\ UNCHANGED <<pnKind, pnConnected, pnError, pnBackend>>
    /\ UNCHANGED <<pnHook, pnPolls>>
    /\ UNCHANGED nonPanelVars

\* connect (SerialPanel.tsx:57-81, SocketPanel.tsx:26-49) up to its invoke.
Connect ==
    /\ ~pnWorking /\ ~pnConnected
    /\ Len(pnCalls) < MaxCalls
    /\ pnWorking' = TRUE
    /\ pnCalls' = Append(pnCalls, [handler |-> "connection", awaits |-> "invoke", hook |-> pnHook])
    /\ pnOp' = "call"
    /\ pnAnswer' = "none"
    /\ UNCHANGED <<pnKind, pnConnected, pnError, pnBackend>>
    /\ UNCHANGED <<pnHook, pnPolls>>
    /\ UNCHANGED nonPanelVars

\* disconnect (SerialPanel.tsx:83-99, SocketPanel.tsx:51-67) up to its invoke.
Disconnect ==
    /\ ~pnWorking /\ pnConnected
    /\ Len(pnCalls) < MaxCalls
    /\ pnWorking' = TRUE
    /\ pnCalls' = Append(pnCalls, [handler |-> "disconnect", awaits |-> "invoke", hook |-> pnHook])
    /\ pnOp' = "call"
    /\ pnAnswer' = "none"
    /\ UNCHANGED <<pnKind, pnConnected, pnError, pnBackend>>
    /\ UNCHANGED <<pnHook, pnPolls>>
    /\ UNCHANGED nonPanelVars

\* send (SerialPanel.tsx:101-122, SocketPanel.tsx:69-88) up to its invoke.
Send ==
    /\ pnConnected /\ ~pnWorking
    /\ Len(pnCalls) < MaxCalls
    /\ \E message \in {<<>>, <<" ">>, <<"a">>, <<" ", "a">>} :
        /\ trim(message) # <<>>
        /\ pnCalls' = Append(pnCalls, [handler |-> "send", awaits |-> "invoke",
                                       hook |-> pnHook, message |-> message])
    /\ pnOp' = "call"
    /\ pnAnswer' = "none"
    /\ UNCHANGED <<pnKind, pnConnected, pnWorking, pnError, pnBackend>>
    /\ UNCHANGED <<pnHook, pnPolls>>
    /\ UNCHANGED nonPanelVars

\* The transport carries out the command of a waiting call.  connect and
\* disconnect go on to `await refreshStatus()`; send clears the message and
\* the error and returns.
InvokeResolves ==
    /\ \E i \in 1..Len(pnCalls) :
        LET call == pnCalls[i] IN
        /\ call.awaits = "invoke"
        /\ call.handler = "send" => pnBackend
        /\ pnBackend' = CASE call.handler = "connection" -> TRUE
                          [] call.handler = "disconnect" -> FALSE
                          [] OTHER -> pnBackend
        /\ IF call.handler = "send"
           THEN /\ pnCalls' = RemoveAt(pnCalls, i)
                /\ pnError' = <<>>
           ELSE /\ pnCalls' = [pnCalls EXCEPT ![i].awaits = "status after success"]
                /\ pnError' = pnError
    /\ pnOp' = "invoke resolved"
    /\ pnAnswer' = "none"
    /\ UNCHANGED <<pnKind, pnConnected, pnWorking>>
    /\ UNCHANGED <<pnHook, pnPolls>>
    /\ UNCHANGED nonPanelVars

\* The transport rejects the command of a waiting call (the connection may
\* be lost on the way); the handler's catch goes to `await refreshStatus()`.
InvokeRejects ==
    /\ \E i \in 1..Len(pnCalls) :
        /\ pnCalls[i].awaits = "invoke"
        /\ pnCalls' = [pnCalls EXCEPT ![i].awaits = "status after failure"]
    /\ pnBackend' \in {pnBackend, FALSE}
    /\ pnOp' = "invoke rejected"
    /\ pnAnswer' = "none"
    /\ UNCHANGED <<pnKind, pnConnected, pnWorking, pnError>>
    /\ UNCHANGED <<pnHook, pnPolls>>
    /\ UNCHANGED nonPanelVars

\* The status query of a handler's refreshStatus settles: refreshStatus sets
\* `connected`, then the handler sets or clears the error, and connect and
\* disconnect reset `working` in their finally.
StatusSettles ==
    /\ \E i \in 1..Len(pnCalls), answer \in StatusAnswers :
        LET call == pnCalls[i] IN
        /\ call.awaits # "invoke"
        /\ refreshStatus(answer)
        /\ pnAnswer' = answer
        /\ IF call.awaits = "status after failure"
           THEN /\ pnError' = <<pnKind, call.handler, "failed">>
                /\ pnOp' = "failure shown"
           ELSE /\ pnError' = <<>>
                /\ pnOp' = "success shown"
        /\ pnWorking' = IF call.handler = "send" THEN pnWorking ELSE FALSE
        /\ pnCalls' = RemoveAt(pnCalls, i)
    /\ UNCHANGED <<pnKind, pnBackend>>
    /\ UNCHANGED <<pnHook, pnPolls>>
    /\ UNCHANGED nonPanelVars

\* The hook's poll (useConnectionStatus.ts:22-48): a query of the interval
\* settles while the panel is mounted.
Poll ==
    /\ \E answer \in StatusAnswers : pnConnected' = (answer = "true")
    /\ pnOp' = "poll"
    /\ pnAnswer' = "none"
    /\ UNCHANGED <<pnKind, pnWorking, pnError, pnBackend, pnCalls>>
    /\ UNCHANGED <<pnHook, pnPolls>>
    /\ UNCHANGED nonPanelVars

\* The device is unplugged or the peer closes the connection.
BackendDrops ==
    /\ pnBackend
    /\ pnBackend' = FALSE
    /\ pnOp' = "drop"
    /\ pnAnswer' = "none"
    /\ UNCHANGED <<pnKind, pnConnected, pnWorking, pnError, pnCalls>>
    /\ UNCHANGED <<pnHook, pnPolls>>
    /\ UNCHANGED nonPanelVars

\* The user switches the mode (App.tsx:30-35) while no call waits: the
\* other panel is mounted with fresh state.
SwitchPanel ==
    /\ pnCalls = <<>>
    /\ pnKind' = IF pnKind = "serial" THEN "socket" ELSE "serial"
    /\ pnConnected' = FALSE
    /\ pnWorking' = FALSE
    /\ pnError' = <<>>
    /\ pnOp' = "mount"
    /\ pnAnswer' = "none"
    /\ UNCHANGED <<pnBackend, pnCalls>>
    /\ UNCHANGED <<pnHook, pnPolls>>
    /\ UNCHANGED nonPanelVars

\* The log stream goes on beside the panel.
PanelLogEvent == Len(emitted) < MaxPanelEvents /\ LogEvent

NextPanel ==
    \/ Connect \/ Disconnect \/ Send
    \/ InvokeResolves \/ InvokeRejects \/ StatusSettles
    \/ Poll \/ BackendDrops \/ SwitchPanel
    \/ PanelLogEvent \/ TimerFires

SpecPanel == Init /\ [][NextPanel]_vars

----------------------------------------------------------------------------
(* The subscription effect of useLogStream torn down and set up again on   *)
(* the mounted component (useLogStream.ts:33-75): React runs the cleanup of *)
(* the old effect instance and then the effect again.  pendingRef and      *)
(* flushTimerRef belong to the component and are shared by the instances;  *)
(* `disposed` and the listener belong to the instance.  The transport      *)
(* calls every registered listener for an event, in the order they were    *)
(* registered, and removes the old one only when its unlisten promise has  *)
(* resolved (Unlisten).                                                    *)

\* Number of times the effect is set up again.
MaxResubs == 1

\* One event handed to every registered listener (47-54): each listener
\* that does not return on SYS pushes the frame and calls scheduleFlush;
\* only the first call can find the timer slot empty.
listenAll(payload) ==
    /\ UNCHANGED logs
    /\ IF payload.dir = "SYS"
       THEN UNCHANGED <<pending, flushTimerRef, timers, timerSeq>>
       ELSE /\ pending' = pending \o [k \in 1..Cardinality(listeners) |-> payload]
            /\ scheduleFlush(Least(listeners))

LogEventAll ==
    /\ Len(emitted) < MaxEvents
    /\ listeners # {}
    /\ \E d \in Dirs :
         LET payload == [id |-> Len(emitted) + 1, dir |-> d] IN
         /\ emitted' = Append(emitted, payload)
         /\ listenAll(payload)
    /\ lastOp' = "event"
    /\ lastBatch' = <<>>
    /\ UNCHANGED <<disposed, listeners, cur, base, appended, cleared, torn,
                   nAppends, nFires>>
    /\ UNCHANGED nonStreamVars

\* The cleanup of the mounted instance (64-74), then the effect again
\* (34-62): a new `disposed` and a new listener.
Resubscribe ==
    /\ cur \notin disposed
    /\ cur <= MaxResubs
    /\ effectCleanup(cur)
    /\ torn' = torn \cup Ids(pending)
    /\ cur' = cur + 1
    /\ listeners' = listeners \cup {cur + 1}
    /\ lastOp' = "resubscribe"
    /\ lastBatch' = <<>>
    /\ UNCHANGED <<logs, timerSeq, emitted, base, appended, cleared, nAppends, nFires>>
    /\ UNCHANGED nonStreamVars

NextResub ==
    \/ LogEventAll
    \/ TimerFires
    \/ Resubscribe
    \/ Unlisten

SpecResub == Init /\ [][NextResub]_vars /\ WF_vars(TimerFires)

----------------------------------------------------------------------------
(* The frame detail pane of LogView (LogView.tsx:117-128).                 *)

\* detailText (117-122) for a selected frame: three replaceAll calls, each
\* on the result of the one before.
detailText(text) ==
    replaceAll(replaceAll(replaceAll(text, <<"\r", "\n">>,
                                     <<"\\", "r", "\\", "n", "\n">>),
                          <<"\n">>, <<"\\", "n", "\n">>),
               <<"\r">>, <<"\\", "r">>)

\* The pane shows detailValue (128): the text or the hex of the selected
\* frame, or "(empty)" for an empty string.
DetailPane ==
    /\ fmtMode = "none"
    /\ \E viewMode \in {"ascii", "hex"} :
         LET detailHex == formatPayload(fmtRaw, "hex", fmtText)
             value == IF viewMode = "ascii" THEN detailText(fmtText) ELSE detailHex
         IN /\ fmtMode' = IF viewMode = "ascii" THEN "detail ascii" ELSE "detail hex"
            /\ fmtOut' = IF value = <<>> THEN <<"(", "e", "m", "p", "t", "y", ")">>
                         ELSE value
    /\ UNCHANGED <<fmtRaw, fmtText, fmtPreview>>
    /\ UNCHANGED nonFmtVars

SpecDetail == InitFormat /\ [][DetailPane]_vars

----------------------------------------------------------------------------
(* The useConnectionStatus hook with its poll queries in flight and with a *)
(* change of its connId (useConnectionStatus.ts:8-55).  The change runs    *)
(* the cleanup of the poll effect (alive = false, the interval cleared)    *)
(* and the effect again, and gives the panel a new refreshStatus; the      *)
(* component and its `connected` state stay.  A handler that is waiting    *)
(* holds the refreshStatus of the instance it was called under.            *)

\* Number of times the connId changes.
MaxRekeys == 1

\* `void refresh()` of the effect start or of an interval tick (23-43): the
\* query of the mounted instance is sent.
PollIssued ==
    /\ pnHook \notin pnPolls
    /\ pnPolls' = pnPolls \cup {pnHook}
    /\ pnOp' = "poll sent"
    /\ pnAnswer' = "none"
    /\ UNCHANGED <<pnKind, pnConnected, pnWorking, pnError, pnBackend, pnCalls, pnHook>>
    /\ UNCHANGED nonPanelVars

\* The query of a poll settles (25-37): the instance that sent it sets
\* `connected` unless its `alive` is false.
PollSettles ==
    /\ \E h \in pnPolls, answer \in StatusAnswers :
        /\ pnPolls' = pnPolls \ {h}
        /\ pnConnected' = IF h = pnHook THEN (answer = "true") ELSE pnConnected
        /\ pnAnswer' = answer
    /\ pnOp' = "poll"
    /\ UNCHANGED <<pnKind, pnWorking, pnError, pnBackend, pnCalls, pnHook>>
    /\ UNCHANGED nonPanelVars

\* The panel is given another connId: the effect's cleanup (45-48), the
\* effect again with its first query, and the transport's state for the new
\* connection.
HookRekey ==
    /\ pnHook <= MaxRekeys
    /\ pnHook' = pnHook + 1
    /\ pnPolls' = pnPolls \cup {pnHook + 1}
    /\ pnBackend' \in BOOLEAN
    /\ pnOp' = "rekey"
    /\ pnAnswer' = "none"
    /\ UNCHANGED <<pnKind, pnConnected, pnWorking, pnError, pnCalls>>
    /\ UNCHANGED nonPanelVars

\* The transport carries out a command sent for the present connId.
HookInvokeResolves ==
    /\ \A i \in 1..Len(pnCalls) : pnCalls[i].hook = pnHook
    /\ InvokeResolves

NextHook ==
    \/ Connect \/ Disconnect \/ Send
    \/ HookInvokeResolves \/ InvokeRejects \/ StatusSettles
    \/ PollIssued \/ PollSettles \/ HookRekey \/ BackendDrops

SpecHook == Init /\ [][NextHook]_vars

----------------------------------------------------------------------------
(* Claims *)

\* C1: the store never holds more than MAX_LOG_LINES frames, after every
\* event, timer flush and clear(), also when one batch alone is larger than
\* the capacity.
C1_StoreBounded == Len(logs) <= MAX_LOG_LINES

\* C1 witness: a flush has just appended a batch larger than the capacity.
C1_Witness ==
    /\ lastOp = "timer"
    /\ Len(lastBatch) > MAX_LOG_LINES
    /\ Len(logs) = MAX_LOG_LINES

\* C2: with no clear in between, the store holds exactly the most recent
\* min(totalAppended, MAX_LOG_LINES) appended frames in arrival order.
C2_MostRecentRetained ==
    logs = LastN(appended, Min(Len(appended), MAX_LOG_LINES))

\* C2 witness: an append evicted a part of the previous contents only (the
\* batch was smaller than the capacity and the store was not empty before).
C2_Witness ==
    /\ lastOp = "timer"
    /\ lastBatch # <<>>
    /\ Len(lastBatch) < MAX_LOG_LINES
    /\ Len(appended) > MAX_LOG_LINES
    /\ Len(logs) = MAX_LOG_LINES

\* C3: appending the batches one after another gives the store that one
\* append of their concatenation gives, from the same starting store.
C3_BatchingEquivalence == logs = appendLogs(base, appended)

\* C3 witness: at least two batches were appended to a non-empty store, the
\* last one larger than the capacity.
C3_Witness ==
    /\ lastOp = "append"
    /\ base # <<>>
    /\ Len(lastBatch) > MAX_LOG_LINES
    /\ Len(appended) > Len(lastBatch)

\* C4: the store is a contiguous run of the non-SYS frames in the order the
\* transport emitted them: no duplicate, no swap, no gap.
C4_ContiguousRun ==
    LET ns == NonSys(emitted) IN
    \E i \in 0..Len(ns) :
        /\ i + Len(logs) <= Len(ns)
        /\ \A k \in 1..Len(logs) : logs[k] = ns[i + k]

\* C4 witness: after a clear that removed frames, the store holds two frames
\* that arrived on both sides of a SYS frame.
C4_Witness ==
    /\ cleared # {}
    /\ Len(logs) = 2
    /\ \E k \in 1..Len(emitted) :
         /\ emitted[k].dir = "SYS"
         /\ logs[1].id < k
         /\ k < logs[2].id

\* Frame i is in the pending list / in the store; the mounted hook's
\* subscription is live (its cleanup has not run).
InPending(i) == \E k \in 1..Len(pending) : pending[k].id = i
InStore(i) == \E k \in 1..Len(logs) : logs[k].id = i
Live == cur \notin disposed

\* The step is the delivery of an event.
EventStep == emitted' # emitted

\* A frame leaves the store only by clear(), or by an append that fills the
\* store and keeps only frames newer than it.
C5_LeavesByEvictionOrClear ==
    \A i \in 1..MaxEvents :
        (InStore(i) /\ ~InStore(i)') =>
            \/ lastOp' = "clear"
            \/ /\ lastOp' = "timer"
               /\ Len(logs') = MAX_LOG_LINES
               /\ \A k \in 1..Len(logs') : logs'[k].id > i

\* The pending list loses a frame only to the batch of a flush, to clear() or
\* to the cleanup; an event keeps what is pending and adds its frame at the end.
C5_NoIngestDrop ==
    /\ \A i \in 1..MaxEvents :
          (InPending(i) /\ ~InPending(i)') =>
              \/ lastOp' = "timer" /\ i \in Ids(lastBatch')
              \/ lastOp' = "clear"
              \/ lastOp' = "teardown"
    /\ EventStep =>
          /\ Len(pending') >= Len(pending)
          /\ SubSeq(pending', 1, Len(pending)) = pending
          /\ emitted'[Len(emitted')].dir # "SYS" =>
                /\ Len(pending') = Len(pending) + 1
                /\ pending'[Len(pending')] = emitted'[Len(emitted')]

\* The last flush's append evicted frame i at once: i was among the first
\* Len(batch) - MAX_LOG_LINES frames of a batch larger than the capacity.
EvictedOnArrival(i) ==
    /\ lastOp = "timer"
    /\ \E k \in 1..Len(lastBatch) :
         /\ lastBatch[k].id = i
         /\ k <= Len(lastBatch) - MAX_LOG_LINES

\* C5 as stated: every non-SYS frame pending on a live subscription
\* eventually appears in the store unless clear() or the teardown removes it
\* first; it leaves the store only by eviction or clear; no frame is dropped
\* on ingest.
C5_Original ==
    /\ \A i \in 1..MaxEvents :
          [](Live /\ InPending(i) => <>(InStore(i) \/ i \in cleared \/ i \in torn))
    /\ [][C5_LeavesByEvictionOrClear]_vars
    /\ [][C5_NoIngestDrop]_vars

\* C5 amended: every non-SYS frame pending on a live subscription eventually
\* appears in the store, or is evicted by the very append that brings it (as
\* one of the oldest surplus frames of a batch larger than the capacity),
\* unless clear() or the teardown removes it first; it leaves the store only
\* by eviction or clear; no frame is dropped on ingest.
C5_Amended ==
    /\ \A i \in 1..MaxEvents :
          [](Live /\ InPending(i) =>
                <>(InStore(i) \/ EvictedOnArrival(i) \/ i \in cleared \/ i \in torn))
    /\ [][C5_LeavesByEvictionOrClear]_vars
    /\ [][C5_NoIngestDrop]_vars

\* C5 witness: a flush on a live subscription stored the newest frames of its
\* batch and evicted the batch's oldest frame on arrival.
C5_Witness ==
    /\ Live
    /\ lastOp = "timer"
    /\ Len(lastBatch) > MAX_LOG_LINES
    /\ EvictedOnArrival(lastBatch[1].id)
    /\ ~InStore(lastBatch[1].id)
    /\ InStore(lastBatch[Len(lastBatch)].id)

\* C6: a SYS frame is never in the store, and a SYS event leaves the pending
\* list and the flush timer as they were.
C6_SysFiltered ==
    /\ [](\A k \in 1..Len(logs) : logs[k].dir # "SYS")
    /\ [][(EventStep /\ emitted'[Len(emitted')].dir = "SYS")
             => UNCHANGED <<pending, flushTimerRef, timers>>]_vars

\* C6 witness: a SYS event was just handled with no timer armed, after
\* earlier frames reached the store.
C6_Witness ==
    /\ lastOp = "event"
    /\ emitted[Len(emitted)].dir = "SYS"
    /\ timers = {}
    /\ flushTimerRef = 0
    /\ logs # <<>>

\* C7: a flush with a non-empty pending list moves the whole list into the
\* store by one append and empties the pending list in the same step; no
\* frame is at once pending and stored.
C7_FlushAtomic ==
    /\ [][(lastOp' = "timer" /\ Live /\ pending # <<>>) =>
             /\ pending' = <<>>
             /\ lastBatch' = pending
             /\ logs' = LastN(logs \o pending,
                              Min(Len(logs) + Len(pending), MAX_LOG_LINES))]_vars
    /\ [](Ids(pending) \cap Ids(logs) = {})

\* C7 witness: a flush has just moved a batch of two frames into the store
\* whole.
C7_Witness ==
    /\ lastOp = "timer"
    /\ Len(lastBatch) = 2
    /\ pending = <<>>
    /\ Ids(lastBatch) \subseteq Ids(logs)

\* C8: at most one flush timer is armed; a timer is armed only by a non-SYS
\* event when none is armed; an event while one is armed leaves it as it is;
\* a firing unarms it.
C8_SingleTimer ==
    /\ [](Cardinality(timers) <= 1)
    /\ [][(timers' \ timers # {}) =>
             /\ timers = {}
             /\ EventStep
             /\ emitted'[Len(emitted')].dir # "SYS"]_vars
    /\ [][(EventStep /\ timers # {}) => timers' = timers]_vars
    /\ [][(lastOp' = "timer") => (timers' = {} /\ flushTimerRef' = 0)]_vars

\* C8 witness: the timer is armed for the second time and a further event
\* has arrived while it is armed.
C8_Witness ==
    /\ timerSeq >= 2
    /\ Cardinality(timers) = 1
    /\ Len(pending) >= 2
    /\ lastOp = "event"

\* C9: the store changes only in a flush or in clear(); an event leaves it
\* unchanged; a timer firing makes at most one append, so the appends never
\* outnumber the firings.
C9_StoreFrame ==
    /\ [][(logs' # logs) => lastOp' \in {"timer", "clear"}]_vars
    /\ [][EventStep => logs' = logs]_vars
    /\ [][(lastOp' = "timer") => nAppends' <= nAppends + 1]_vars
    /\ [](nAppends <= nFires)

\* C9 witness: an event was just delivered to a non-empty store, after a
\* firing that appended and a firing that did not.
C9_Witness ==
    /\ lastOp = "event"
    /\ logs # <<>>
    /\ nAppends >= 1
    /\ nFires > nAppends

\* C10: the teardown cancels the armed timer and discards the pending
\* frames: right after it the pending list is empty and no timer is armed,
\* and a discarded frame is never in the store.
C10_TeardownDiscards ==
    /\ [][(lastOp' = "teardown" /\ Live) =>
             /\ pending' = <<>>
             /\ timers' = {}
             /\ flushTimerRef' = 0]_vars
    /\ [](torn \cap Ids(logs) = {})

\* C10 witness: the teardown has just discarded pending frames (a timer was
\* armed for them) while the store holds earlier frames.
C10_Witness ==
    /\ lastOp = "teardown"
    /\ torn # {}
    /\ timerSeq >= 1
    /\ logs # <<>>

\* C11: once the subscription is torn down, no step appends to the store:
\* a flush timer armed by an event that arrived after the teardown, while the
\* listener was still registered, finds `disposed` set and returns, also when
\* the cleanup has run more than once.
C11_NoAppendAfterTeardown ==
    [][(cur \in disposed) =>
         (logs' = logs /\ nAppends' = nAppends /\ appended' = appended)]_vars

\* The cleanup has run twice, and between the two runs a timer armed by a late
\* event fired and was refused.
C11_Witness ==
    /\ lastOp = "teardown again"
    /\ cur \in disposed
    /\ nFires > nAppends
    /\ logs # <<>>
    /\ torn # {}
    /\ \E i \in torn : \A k \in 1..Len(logs) : logs[k].id < i

\* C12: once the clamp effect has run for the rendered list and the list is
\* not empty, the selection is a valid index, 0 <= selectedIndex <
\* logs.length; and the effect run that finds the selection at or past the end
\* of a non-empty list sets it to the last index, logs.length - 1.
C12_SelectionInRange ==
    /\ []((viewMounted /\ Settled /\ totalRows > 0)
             => (0 <= selectedIndex /\ selectedIndex < totalRows))
    /\ [][(viewOp' = "clamp" /\ totalRows > 0 /\ selectedIndex >= totalRows)
             => selectedIndex' = totalRows - 1]_vars

\* The list was shortened below the selected row and the effect moved the
\* selection to the last row.
C12_Witness ==
    /\ viewOp = "clamp"
    /\ totalRows > 0
    /\ clampFrom[1] >= totalRows
    /\ selectedIndex = totalRows - 1

\* C13: a clear makes the clamp effect due, and the effect run that finds the
\* list empty sets selectedIndex to 0 and the scrollTop state to 0, whatever
\* the selection and the scroll offset were.
C13_ClearResets ==
    /\ [][(viewOp' = "clear") => (totalRows' = 0 /\ ~Settled')]_vars
    /\ [][(viewOp' = "clamp" /\ totalRows = 0)
             => (selectedIndex' = 0 /\ scrollTop' = 0)]_vars

\* The effect has just reset a selection and a scroll offset that were both
\* not 0 when the list was cleared.
C13_Witness ==
    /\ viewOp = "clamp"
    /\ totalRows = 0
    /\ clampFrom[1] > 0
    /\ clampFrom[2] > 0
    /\ selectedIndex = 0
    /\ scrollTop = 0

\* C14: an append leaves the selection on the same frame as long as that
\* frame is still in the store.  Frames are numbered in arrival order since
\* the last clear; row i shows frame evictedRows + i.
C14_SelectedFrameStable ==
    [][(viewOp' = "append" /\ selectedIndex < totalRows
          /\ evictedRows + selectedIndex >= evictedRows')
         => evictedRows' + selectedIndex' = evictedRows + selectedIndex]_vars

\* C15 as claimed: the window ends at min(totalRows, ceil((scrollOffsetPx +
\* viewportHeightPx) / rowHeightPx) + overscanRows) with viewportHeightPx the
\* height of the viewport, and for a list of 1000 rows scrolled to 560 px in
\* a viewport of 300 px the rows [8, 43) are materialized between spacers of
\* 224 px and 26796 px.
C15_Original ==
    /\ visibleStart = Max(0, (scrollTop \div 28) - 12)
    /\ visibleEnd = Min(totalRows, ((scrollTop + viewportHeight + 27) \div 28) + 12)
    /\ (totalRows = 1000 /\ scrollTop = 560 /\ viewportHeight = 300)
          => /\ visibleRows = 8..42
             /\ topSpacerHeight = 224
             /\ bottomSpacerHeight = 26796

\* The height the window is computed from: the viewport less the 30 px
\* header, and at least ten rows.
C15_Body == IF viewportHeight - 30 > 280 THEN viewportHeight - 30 ELSE 280

\* C15: the window starts 12 rows before the row that holds the scroll
\* offset (or at row 0) and ends 12 rows after the first row boundary at or
\* past scroll offset + body height (or at the end of the list), where the
\* body height is max(viewport height - 30, 280); the spacers are
\* visibleStart * 28 and (totalRows - visibleEnd) * 28.  For 1000 rows
\* scrolled to 560 px in a viewport of 300 px the rows [8, 42) are
\* materialized between spacers of 224 px and 26824 px; in a viewport of
\* 330 px the rows [8, 43) between 224 px and 26796 px.
C15_Amended ==
    /\ \/ visibleStart = 0 /\ scrollTop < 13 * 28
       \/ /\ visibleStart > 0
          /\ (visibleStart + 12) * 28 <= scrollTop
          /\ scrollTop < (visibleStart + 13) * 28
    /\ \/ visibleEnd = totalRows /\ (totalRows - 13) * 28 < scrollTop + C15_Body
       \/ /\ visibleEnd < totalRows
          /\ (visibleEnd - 12) * 28 >= scrollTop + C15_Body
          /\ (visibleEnd - 13) * 28 < scrollTop + C15_Body
    /\ topSpacerHeight = visibleStart * 28
    /\ visibleEnd <= totalRows => bottomSpacerHeight = (totalRows - visibleEnd) * 28
    /\ (totalRows = 1000 /\ scrollTop = 560 /\ viewportHeight = 300)
          => /\ visibleRows = 8..41
             /\ topSpacerHeight = 224
             /\ bottomSpacerHeight = 26824
    /\ (totalRows = 1000 /\ scrollTop = 560 /\ viewportHeight = 330)
          => /\ visibleRows = 8..42
             /\ topSpacerHeight = 224
             /\ bottomSpacerHeight = 26796

\* The list of 1000 rows is scrolled to 560 px in a viewport of 300 px.
C15_Witness ==
    /\ totalRows = 1000
    /\ scrollTop = 560
    /\ viewportHeight = 300
    /\ viewOp = "frame"
    /\ Cardinality(visibleRows) = 34

\* C16: whenever the table is rendered (the list is not empty and the clamp
\* effect has run) the projected window is well formed, 0 <= visibleStart <=
\* visibleEnd <= totalRows, and the top spacer, the materialized rows and the
\* bottom spacer add up to totalRows * rowHeightPx.
C16_WindowWellFormed ==
    (viewMounted /\ totalRows > 0 /\ Settled) =>
        /\ 0 <= visibleStart
        /\ visibleStart <= visibleEnd
        /\ visibleEnd <= totalRows
        /\ topSpacerHeight + Cardinality(visibleRows) * ROW_HEIGHT_PX
              + bottomSpacerHeight = totalRows * ROW_HEIGHT_PX

\* ceil(bodyHeight / rowHeightPx), by its defining inequalities.
C17_BodyRows ==
    CHOOSE q \in 0..bodyHeight :
        q * ROW_HEIGHT_PX >= bodyHeight /\ (q - 1) * ROW_HEIGHT_PX < bodyHeight

\* C17: the materialized rows are rows of the list inside [visibleStart,
\* visibleEnd), and there are at most ceil(bodyHeight / rowHeightPx) +
\* 2 * overscanRows + 1 of them, whatever the number of rows (up to the
\* store's capacity) and the scroll offset.
C17_MaterializedBounded ==
    /\ totalRows <= StoreCapacity
    /\ \A i \in visibleRows :
          visibleStart <= i /\ i < visibleEnd /\ 0 <= i /\ i < totalRows
    /\ Cardinality(visibleRows) <= C17_BodyRows + 2 * OVERSCAN_ROWS + 1

\* A full store scrolled into its middle materializes exactly that many rows.
C17_Witness ==
    /\ totalRows = StoreCapacity
    /\ scrollTop > 0
    /\ visibleEnd < totalRows
    /\ Cardinality(visibleRows) = C17_BodyRows + 2 * OVERSCAN_ROWS + 1

\* C18: at most one animation-frame callback is pending at any time; a scroll
\* event never changes the scroll state itself, and one that arrives while a
\* callback is pending requests no further frame and only stores its offset
\* as the pending value; when the callback runs no callback is left pending
\* and the scroll state becomes the offset of the most recent scroll event.
C18_ScrollCoalesced ==
    /\ [](Cardinality(rafs) <= 1)
    /\ [][(viewOp' \in {"scroll", "scroll again"}) => scrollTop' = scrollTop]_vars
    /\ [][(viewOp' \in {"scroll", "scroll again"} /\ rafs # {})
             => (rafs' = rafs /\ pendingScrollTopRef' = lastScroll')]_vars
    /\ [][(viewOp' = "frame") => (rafs' = {} /\ scrollTop' = lastScroll)]_vars

\* A scroll event found a frame requested and replaced the pending offset,
\* which differs from the scroll state the next frame will overwrite.
C18_Witness ==
    /\ viewOp = "scroll again"
    /\ Cardinality(rafs) = 1
    /\ pendingScrollTopRef = lastScroll
    /\ pendingScrollTopRef # scrollTop
    /\ scrollTop # 0

\* The sixteen upper-case hex digits, in order of value.
C19_Digits ==
    <<"0", "1", "2", "3", "4", "5", "6", "7", "8", "9", "A", "B", "C", "D", "E", "F">>

\* The value of an upper-case hex digit, 16 for any other character.
C19_Value(c) ==
    IF \E v \in 1..16 : C19_Digits[v] = c
    THEN (CHOOSE v \in 1..16 : C19_Digits[v] = c) - 1
    ELSE 16

\* C19: in hex mode a sequence of n bytes is formatted as n pairs of
\* upper-case hex digits in the bytes' order with one space between two
\* pairs and none at the ends (the empty string for no bytes), and reading
\* pair k back as a number gives byte k.
C19_HexRoundTrip ==
    (fmtMode = "hex") =>
        LET n == Len(fmtRaw) IN
        /\ Len(fmtOut) = IF n = 0 THEN 0 ELSE 3 * n - 1
        /\ \A k \in 1..n :
              /\ C19_Value(fmtOut[3 * k - 2]) < 16
              /\ C19_Value(fmtOut[3 * k - 1]) < 16
              /\ k < n => fmtOut[3 * k] = " "
              /\ 16 * C19_Value(fmtOut[3 * k - 2]) + C19_Value(fmtOut[3 * k - 1])
                    = fmtRaw[k]

\* Three bytes that need a padding zero, letters in both places and the
\* greatest value.
C19_Witness ==
    /\ fmtMode = "hex"
    /\ fmtRaw = <<10, 171, 255>>
    /\ fmtOut = <<"0", "A", " ", "A", "B", " ", "F", "F">>

\* Number of occurrences of the character c in str.
C20_Count(str, c) == Cardinality({k \in 1..Len(str) : str[k] = c})

\* The positions of the text where a CRLF pair starts, of the LFs that end
\* no pair, and of the CRs that start none.
C20_Pairs ==
    {i \in 1..(Len(fmtText) - 1) : fmtText[i] = "\r" /\ fmtText[i + 1] = "\n"}

C20_LoneLF ==
    {i \in 1..Len(fmtText) :
        fmtText[i] = "\n" /\ ~(i > 1 /\ fmtText[i - 1] = "\r")}

C20_LoneCR ==
    {i \in 1..Len(fmtText) :
        fmtText[i] = "\r" /\ ~(i < Len(fmtText) /\ fmtText[i + 1] = "\n")}

\* One pass over the text from the left: a CR followed by an LF gives the
\* CRLF marker, any other LF the LF marker, any other CR the CR marker.
RECURSIVE C20_Scan(_, _, _, _)
C20_Scan(str, crlf, lf, cr) ==
    IF Len(str) = 0 THEN <<>>
    ELSE IF Len(str) >= 2 /\ str[1] = "\r" /\ str[2] = "\n"
    THEN crlf \o C20_Scan(SubSeq(str, 3, Len(str)), crlf, lf, cr)
    ELSE IF str[1] = "\n" THEN lf \o C20_Scan(Tail(str), crlf, lf, cr)
    ELSE IF str[1] = "\r" THEN cr \o C20_Scan(Tail(str), crlf, lf, cr)
    ELSE <<str[1]>> \o C20_Scan(Tail(str), crlf, lf, cr)

\* C20: the ASCII formatter (formatPayload in ascii mode, and showNL of the
\* earlier App) writes one CRLF marker for each CR LF pair and no CR or LF
\* marker for that pair, one LF marker for every other LF and one CR marker
\* for every other CR, in the text's order, and leaves no CR or LF character
\* in its output.
C20_NewlineMarkers ==
    (fmtMode \in {"ascii", "legacy"}) =>
        /\ C20_Count(fmtOut, "U+23CE") = Cardinality(C20_Pairs)
        /\ C20_Count(fmtOut, "U+240A") = Cardinality(C20_LoneLF)
        /\ C20_Count(fmtOut, "U+240D") = Cardinality(C20_LoneCR)
        /\ C20_Count(fmtOut, "\r") = 0
        /\ C20_Count(fmtOut, "\n") = 0
        /\ fmtMode = "ascii" => fmtOut = C20_Scan(fmtText, CRLF_MARK, LF_MARK, CR_MARK)
        /\ fmtMode = "legacy" => fmtOut = C20_Scan(fmtText, NLCRLF, NLLF, NLCR)

\* A text with a lone CR, a CRLF pair and a lone LF, formatted.
C20_Witness ==
    /\ fmtMode = "ascii"
    /\ fmtText = <<"\r", "\r", "\n", "\n">>
    /\ fmtOut = CR_MARK \o CRLF_MARK \o LF_MARK

\* C29: while the subscription is live, a non-empty pending list always has
\* its flush timer armed: flushTimerRef holds the handle of a timeout the
\* browser still has, and that timeout belongs to the live subscription.
C29_PendingHasTimer ==
    (Live /\ pending # <<>>) =>
        /\ flushTimerRef # 0
        /\ \E t \in timers : t.id = flushTimerRef /\ t.sub = cur

\* A frame is pending with its timer armed after an earlier flush and an
\* earlier clear() have both happened.
C29_Witness ==
    /\ Live
    /\ pending # <<>>
    /\ flushTimerRef # 0
    /\ nFires > 0
    /\ cleared # {}
    /\ lastOp = "event"

\* C30: once the subscription is torn down the pending list is empty and no
\* flush timer is armed, in every later state, also while the transport still
\* calls the listener.
C30_TornDownStaysIdle ==
    (cur \in disposed) =>
        /\ pending = <<>>
        /\ flushTimerRef = 0
        /\ timers = {}

\* C27: in the earlier App the store never holds more than the capacity
\* limit of frames, and no SYS frame is in the store the rows are rendered
\* from.
C27_LegacyBounded ==
    /\ Len(logs) <= MAX_LOG_LINES
    /\ \A k \in 1..Len(logs) : logs[k].dir # "SYS"

\* The positions of the formatted payload that hold whitespace coming after
\* other whitespace, and the positions of its characters that are none.
C28_Repeated ==
    {j \in 2..Len(fmtOut) : IsSpace(fmtOut[j]) /\ IsSpace(fmtOut[j - 1])}

C28_Solid == {i \in 1..Len(fmtOut) : ~IsSpace(fmtOut[i])}

\* The positions whose character the claimed preview keeps (every position
\* but the repeated whitespace), and those the preview keeps: of these, the
\* ones not before the first and not after the last non-whitespace
\* character.
C28_KeptClaimed == (1..Len(fmtOut)) \ C28_Repeated

C28_Kept ==
    {i \in C28_KeptClaimed :
        (\E a \in C28_Solid : a <= i) /\ (\E b \in C28_Solid : i <= b)}

\* The preview is the characters at the positions `kept`, in order, each
\* whitespace character as a space, cut after cut characters.
C28_IsCut(kept, cut) ==
    /\ Len(fmtPreview) = Min(cut, Cardinality(kept))
    /\ \A i \in kept :
          LET at == Cardinality({j \in kept : j <= i}) IN
          at <= cut =>
              fmtPreview[at] = IF IsSpace(fmtOut[i]) THEN " " ELSE fmtOut[i]

\* C28 as claimed: the preview is the formatted payload with every run of
\* whitespace replaced by one space, cut to 120 characters.
C28_Original ==
    (fmtMode # "none") => C28_IsCut(C28_KeptClaimed, 120)

\* C28: the preview is the formatted payload with every run of whitespace
\* between two other characters replaced by one space and the whitespace
\* before the first and after the last other character removed, cut to 120
\* characters; making it leaves the frame's bytes and text as they were.
C28_Amended ==
    /\ []((fmtMode # "none") => C28_IsCut(C28_Kept, 120))
    /\ [][(fmtMode' # fmtMode) => (fmtRaw' = fmtRaw /\ fmtText' = fmtText)]_vars

\* A payload longer than the cut that starts with two whitespace characters.
C28_Witness ==
    /\ fmtMode = "ascii"
    /\ Len(fmtOut) > PREVIEW_CHARS
    /\ Len(fmtPreview) = PREVIEW_CHARS
    /\ IsSpace(fmtOut[1])
    /\ IsSpace(fmtOut[2])
    /\ ~IsSpace(fmtPreview[1])

\* C21: with an empty filter text, `filtered` is the list of the frames of
\* the connection scope, in their order, and renderLogs returns an element
\* for every one of them, whatever the regex switch and the view mode.
C21_EmptyFilterKeepsScope ==
    (lgDone /\ lgFilter = <<>>) =>
        /\ lgFiltered = SelectSeq(lgLogs, LAMBDA l : lgConn = "all" \/ l.connId = lgConn)
        /\ lgRendered = [k \in 1..Len(lgFiltered) |-> lgFiltered[k].id]

C21_Witness ==
    /\ lgDone
    /\ lgFilter = <<>>
    /\ lgUseRegex
    /\ lgView = "hex"
    /\ lgConn = "main"
    /\ Len(lgLogs) = 2
    /\ Len(lgFiltered) = 1
    /\ lgRendered = <<2>>

\* C22: with the regex switch on and a filter text that does not compile,
\* the render shows the whole connection scope: `filtered` is the scoped
\* list, renderLogs returns an element for every frame of it, and no
\* exception leaves the render.
C22_InvalidRegexKeepsAll ==
    (lgDone /\ lgUseRegex /\ RegExpThrows(lgFilter)) =>
        /\ lgFiltered = SelectSeq(lgLogs, LAMBDA l : lgConn = "all" \/ l.connId = lgConn)
        /\ lgRendered = [k \in 1..Len(lgFiltered) |-> lgFiltered[k].id]
        /\ ~lgThrew

\* C23: with the regex switch off and a non-empty filter text, a frame of
\* the connection scope is kept exactly when its text contains the filter
\* text, letter case ignored; the kept frames stay in their order.
C23_SubstringIgnoresCase ==
    (lgDone /\ ~lgUseRegex /\ lgFilter # <<>>) =>
        lgFiltered =
            SelectSeq(SelectSeq(lgLogs, LAMBDA l : lgConn = "all" \/ l.connId = lgConn),
                      LAMBDA l : Occurrences(toLowerCase(l.text),
                                             toLowerCase(lgFilter)) # {})

\* The list without its k-th element.
C24_Without(list, k) == SubSeq(list, 1, k - 1) \o SubSeq(list, k + 1, Len(list))

\* C24: a highlight rule that is disabled, has an empty pattern or a pattern
\* that does not compile is skipped: the body of the frame is the one the
\* list without that rule gives (the other rules applied in their order),
\* and no exception leaves the render.
C24_SkippedRuleIsNoRule ==
    (lgDone /\ lgView = "ascii" /\ Len(lgLogs) = 1) =>
        /\ ~lgThrew
        /\ Len(lgBodies) = Len(lgRendered)
        /\ \A k \in 1..Len(lgRules) :
            (/\ Len(lgBodies) = 1
             /\ \/ ~lgRules[k].enabled
                \/ lgRules[k].pattern = <<>>
                \/ (lgRules[k].isRegex /\ lgRules[k].pattern = <<"(">>))
            => lgBodies[1] = showNL(applyColorRules(lgLogs[1].text, lgFilter, lgUseRegex,
                                                    C24_Without(lgRules, k)))

\* A disabled rule and a rule whose pattern does not compile stand before
\* and between two rules that are applied.
C24_Witness ==
    /\ lgDone
    /\ Len(lgBodies) = 1
    /\ Len(lgRules) = 2
    /\ ~lgRules[1].enabled /\ lgRules[1].pattern = <<"z">>
    /\ lgRules[2].enabled /\ lgRules[2].pattern = <<"z">>
    /\ lgLogs[1].text = <<"z", "(">>
    /\ lgBodies[1] = SpanOpen(RuleColor) \o <<"z">> \o SPAN_CLOSE \o <<"(">>

\* The result r is the stored record s merged over the defaults d field by
\* field: a field s has keeps the value it has in s, a field only d has
\* takes its default, and r has no other field.
C25_Merged(r, s, d) ==
    /\ DOMAIN r = DOMAIN s \cup DOMAIN d
    /\ \A f \in DOMAIN s : r[f] = s[f]
    /\ \A f \in DOMAIN d \ DOMAIN s : r[f] = d[f]

\* C25: after the mount the settings are the stored record merged over the
\* defaults field by field, at the top and inside serial and socket (a
\* nested record the stored record lacks is all defaults); they are exactly
\* the defaults when the storage cannot be read, holds no text or holds a
\* text that is no record; and neither loadSettings nor saveSettings lets an
\* exception out, also when the write fails.
C25_MergedOverDefaults ==
    /\ ~stRaised
    /\ stOp = "load" =>
        IF ~stStorage.denied /\ stStorage.kind = "record"
        THEN LET stored == stStorage.value
                 scalars(rec) == [f \in DOMAIN rec \ {"serial", "socket"} |-> rec[f]]
                 group(g) == IF g \in DOMAIN stored THEN stored[g] ELSE <<>>
             IN /\ DOMAIN stSettings = DOMAIN stored \cup DOMAIN defaultSettings
                /\ C25_Merged(scalars(stSettings), scalars(stored),
                              scalars(defaultSettings))
                /\ C25_Merged(stSettings.serial, group("serial"),
                              defaultSettings.serial)
                /\ C25_Merged(stSettings.socket, group("socket"),
                              defaultSettings.socket)
        ELSE stSettings = defaultSettings

\* A stored record with a top-level field and part of the serial record has
\* been loaded, and a later write of the settings has failed.
C25_Witness ==
    /\ stOp = "save failed"
    /\ ~stStorage.denied
    /\ stStorage.kind = "record"
    /\ DOMAIN stStorage.value = {"mode", "serial"}
    /\ DOMAIN stStorage.value.serial = {"baud"}
    /\ stSettings.mode = "socket"
    /\ stSettings.serial.baud = 9600
    /\ stSettings.serial.parity = "none"
    /\ stSettings.socket = defaultSettings.socket

C31_OnceAndFlushed ==
    (cur > 1) =>
        /\ \A i, j \in 1..Len(pending) : pending[i].id = pending[j].id => i = j
        /\ \A i, j \in 1..Len(logs) : logs[i].id = logs[j].id => i = j
        /\ pending # <<>> => \E t \in timers : t.id = flushTimerRef /\ t.sub = cur

\* C32: clear() empties the store and the pending list; a frame it removed,
\* from the store or from the pending list, is in neither afterwards; and a
\* flush timer that fires on an empty pending list leaves the store as it
\* is and the timer slot empty.
C32_ClearRemovesForGood ==
    [][/\ (lastOp' = "clear") => (logs' = <<>> /\ pending' = <<>>)
       /\ (Ids(logs') \cup Ids(pending')) \cap cleared' = {}
       /\ (nFires' # nFires /\ pending = <<>>) => (logs' = logs /\ flushTimerRef' = 0)]_vars

\* A frame waited in the pending list when clear() ran, and the timer armed
\* for it has fired since on the empty list.
C32_Witness ==
    /\ lastOp = "timer"
    /\ cur \notin disposed
    /\ lastBatch = <<>>
    /\ cleared # {}
    /\ nAppends = 0
    /\ logs = <<>>
    /\ flushTimerRef = 0

\* C33: once the clamp effect has reset the scroll state on the emptied
\* list, the scroll state stays 0 in every step that is no scroll event; no
\* animation frame requested before the clear writes an offset back.
C33_ScrollStaysReset ==
    [][(viewMounted /\ totalRows = 0 /\ Settled /\ scrollTop = 0
            /\ viewOp' \notin {"scroll", "scroll again"})
          => scrollTop' = 0]_vars

\* C34: in the ASCII detail pane every CR LF pair of the frame's text is
\* shown as the escape \r\n and a line break and nothing more, every other
\* LF as the escape \n and a line break, every other CR as the escape \r.
C34_DetailEscapes ==
    (fmtMode = "detail ascii" /\ fmtText # <<>>) =>
        fmtOut = C20_Scan(fmtText, <<"\\", "r", "\\", "n", "\n">>,
                          <<"\\", "n", "\n">>, <<"\\", "r">>)

\* C35: in the text view renderLogs returns an element for every frame of
\* the filtered list, whatever frames stand before it, for a plain filter
\* and for a filter that compiles as a regular expression.
C35_EveryFilteredFrameRendered ==
    (lgDone /\ lgView = "ascii" /\ ~(lgUseRegex /\ RegExpThrows(lgFilter))) =>
        lgRendered = [k \in 1..Len(lgFiltered) |-> lgFiltered[k].id]

\* The connect and disconnect calls among the waiting calls.
C36_Requests(calls) ==
    {i \in 1..Len(calls) : calls[i].handler \in {"connection", "disconnect"}}

C37_TornDownQueryIgnored ==
    [][(\/ \E h \in pnPolls \ pnPolls' : h # pnHook
        \/ \E i \in 1..Len(pnCalls) :
              /\ pnCalls[i].hook # pnHook
              /\ pnCalls[i].awaits # "invoke"
              /\ pnCalls' = RemoveAt(pnCalls, i))
          => pnConnected' = pnConnected]_vars

====
